---- MODULE Spec2Model ----
(***************************************************************************)
(* Model of the AiTool scenario synthesis pipeline                         *)
(* (ait/generators/gherkin_generator.py, ait/ai/ollama_provider.py), of    *)
(* the markup extraction engine (ait/analyzers/html_analyzer.py) and of    *)
(* the framework detector (ait/analyzers/framework_detector.py).           *)
(*                                                                         *)
(* Python strings are modelled as sequences of one-character strings, so   *)
(* that strip, split, startswith, replace, lower and the regular           *)
(* expressions of the source are computed character by character.          *)
(***************************************************************************)
EXTENDS Integers, Sequences, FiniteSets, TLC

VARIABLES
    \* ---- _parse_ai_response, one loop iteration per step ----
    ai_response,       \* the text handed to the parser
    lines,             \* ai_response.split('\n')
    idx,               \* position of the for loop in lines (1-based)
    scenarios,         \* the result list
    current_scenario,  \* <<>> for None, <<record>> for an open scenario
    current_tags,      \* pending tags
    ppc,               \* "loop" while iterating, "done" after the return
    \* ---- HTMLAnalyzer.analyze on one file, then the aggregation of its catalog ----
    html_file,         \* [readable, content]: the file analyze() opens
    catalog,           \* <<>> before analyze returns, <<result>> after
    catalog_again,     \* <<>> or <<result of a second analyze() of the same file>>
    view,              \* <<>> or <<_combine_analysis_results([catalog])>>
    hpc,               \* "start", "analyzed", "reanalyzed", "combined"
    \* ---- the collaborator (Ollama) as the environment ----
    ollama_up,         \* GET /api/tags answers 200 right now
    ollama_reply,      \* how POST /api/generate answers right now
    \* ---- one GherkinGenerator and its generate() calls ----
    ai_enabled,        \* self.ai_enabled, set once by __init__
    analysis_results,  \* argument of the current call
    options,           \* argument of the current call
    combined_analysis, \* <<>> or <<the combined view>>
    prompt,            \* <<>> or <<the prompt built by _create_ai_prompt>>
    response,          \* what generate_text returned: None or <<text>>
    ai_scenarios,      \* what _generate_with_ai returned (<<>> for None and [])
    rb_scenarios,      \* the local scenarios of line 71
    probes,            \* GET requests made during the current call
    posts,             \* POST requests made during the current call
    result,            \* <<>> or <<the dict generate() returned>>
    gpc,               \* position of the current call
    \* ---- FrameworkDetector._check_file_for_framework on one file and framework ----
    det_file,          \* [name, size, content, json]: the file that is checked
    det_framework,     \* the framework whose rules are applied
    evidence,          \* the evidence list
    detected,          \* the detected flag
    dpc                \* "files", "extension", "content", "done"

parserVars == <<ai_response, lines, idx, scenarios, current_scenario, current_tags, ppc>>
htmlVars == <<html_file, catalog, catalog_again, view, hpc>>
envVars == <<ollama_up, ollama_reply>>
callVars == <<analysis_results, options, combined_analysis, prompt, response,
              ai_scenarios, rb_scenarios, probes, posts, result, gpc>>
genVars == <<envVars, ai_enabled, callVars>>

detVars == <<det_file, det_framework, evidence, detected, dpc>>

vars == <<parserVars, htmlVars, genVars, detVars>>

----
(* Bounds of the model *)

MaxLines == 4
MaxFragments == 3
MaxBatch == 2
MaxBlocks == 3
MaxControls == 3

----
(* Python str primitives *)

Whitespace == {" ", "\t", "\n", "\r", "\f"}

RECURSIVE LStrip(_)
LStrip(s) ==
    IF s = <<>> THEN <<>>
    ELSE IF Head(s) \in Whitespace THEN LStrip(Tail(s)) ELSE s

RECURSIVE RStrip(_)
RStrip(s) ==
    IF s = <<>> THEN <<>>
    ELSE IF s[Len(s)] \in Whitespace THEN RStrip(SubSeq(s, 1, Len(s) - 1)) ELSE s

\* str.strip()
Strip(s) == RStrip(LStrip(s))

\* str.startswith(prefix)
StartsWith(s, prefix) ==
    /\ Len(prefix) <= Len(s)
    /\ SubSeq(s, 1, Len(prefix)) = prefix

\* str.split(sep) for a one-character separator: empty fields are kept
RECURSIVE SplitOn(_, _, _)
SplitOn(s, sep, field) ==
    IF s = <<>> THEN <<field>>
    ELSE IF Head(s) = sep THEN <<field>> \o SplitOn(Tail(s), sep, <<>>)
    ELSE SplitOn(Tail(s), sep, Append(field, Head(s)))

\* str.split() without argument: runs of whitespace separate, no empty fields
RECURSIVE SplitWs(_, _)
SplitWs(s, field) ==
    IF s = <<>> THEN (IF field = <<>> THEN <<>> ELSE <<field>>)
    ELSE IF Head(s) \in Whitespace
         THEN (IF field = <<>> THEN <<>> ELSE <<field>>) \o SplitWs(Tail(s), <<>>)
         ELSE SplitWs(Tail(s), Append(field, Head(s)))

\* str.replace(old, ''): every non-overlapping occurrence, left to right
RECURSIVE Remove(_, _)
Remove(s, old) ==
    IF s = <<>> THEN <<>>
    ELSE IF StartsWith(s, old) THEN Remove(SubSeq(s, Len(old) + 1, Len(s)), old)
    ELSE <<Head(s)>> \o Remove(Tail(s), old)

\* sep.join(parts)
RECURSIVE Join(_, _)
Join(parts, sep) ==
    IF parts = <<>> THEN <<>>
    ELSE IF Len(parts) = 1 THEN parts[1]
    ELSE parts[1] \o sep \o Join(Tail(parts), sep)

\* str.lower() on the ASCII letters
LowerOf ==
    [c \in {"A","B","C","D","E","F","G","H","I","J","K","L","M","N","O","P","Q",
            "R","S","T","U","V","W","X","Y","Z"} |->
        CASE c = "A" -> "a" [] c = "B" -> "b" [] c = "C" -> "c" [] c = "D" -> "d"
          [] c = "E" -> "e" [] c = "F" -> "f" [] c = "G" -> "g" [] c = "H" -> "h"
          [] c = "I" -> "i" [] c = "J" -> "j" [] c = "K" -> "k" [] c = "L" -> "l"
          [] c = "M" -> "m" [] c = "N" -> "n" [] c = "O" -> "o" [] c = "P" -> "p"
          [] c = "Q" -> "q" [] c = "R" -> "r" [] c = "S" -> "s" [] c = "T" -> "t"
          [] c = "U" -> "u" [] c = "V" -> "v" [] c = "W" -> "w" [] c = "X" -> "x"
          [] c = "Y" -> "y" [] c = "Z" -> "z"]

Lower(s) == [i \in 1..Len(s) |-> IF s[i] \in DOMAIN LowerOf THEN LowerOf[s[i]] ELSE s[i]]

\* does lit occur in s at position i
OccursAt(s, i, lit) ==
    /\ i >= 1
    /\ i + Len(lit) - 1 <= Len(s)
    /\ SubSeq(s, i, i + Len(lit) - 1) = lit

\* lit in s
Contains(s, lit) == \E i \in 1..(Len(s) - Len(lit) + 1) : OccursAt(s, i, lit)

\* the least position >= from where lit occurs in s, 0 when there is none
FindFrom(s, from, lit) ==
    LET hits == {i \in from..(Len(s) - Len(lit) + 1) : OccursAt(s, i, lit)}
    IN IF hits = {} THEN 0 ELSE CHOOSE i \in hits : \A j \in hits : i <= j

\* the least position >= from whose character is in the set cs, 0 when none
FindCharFrom(s, from, cs) ==
    LET hits == {i \in from..Len(s) : s[i] \in cs}
    IN IF hits = {} THEN 0 ELSE CHOOSE i \in hits : \A j \in hits : i <= j

\* the position after a maximal run of whitespace starting at from (regex \s*)
RECURSIVE SkipWs(_, _)
SkipWs(s, from) ==
    IF from <= Len(s) /\ s[from] \in Whitespace THEN SkipWs(s, from + 1) ELSE from

----
(* Literals of gherkin_generator.py *)

ScenarioKw == <<"S","c","e","n","a","r","i","o",":">>
GivenKw == <<"G","i","v","e","n">>
WhenKw  == <<"W","h","e","n">>
ThenKw  == <<"T","h","e","n">>
AndKw   == <<"A","n","d">>
ButKw   == <<"B","u","t">>
StepKeywords == {GivenKw, WhenKw, ThenKw, AndKw, ButKw}

----
(* _parse_ai_response *)

\* line 202: any(line.startswith(keyword) for keyword in [...])
IsStepLine(line) == \E kw \in StepKeywords : StartsWith(line, kw)

\* line 192: title = line.replace('Scenario:', '').strip()
ScenarioTitle(line) == Strip(Remove(line, ScenarioKw))

\* an unrecognised line ends the open scenario
ParseLineStrict(st, raw) ==
    LET line == Strip(raw) IN
    IF line = <<>> THEN st
    ELSE IF StartsWith(line, <<"@">>)
    THEN [st EXCEPT !.current_tags = SplitWs(line, <<>>)]
    ELSE IF StartsWith(line, ScenarioKw)
    THEN [scenarios |-> st.scenarios \o st.current_scenario,
          current_scenario |-> << [title |-> Strip(Remove(line, ScenarioKw)),
                                   tags  |-> st.current_tags,
                                   steps |-> <<>>] >>,
          current_tags |-> <<>>]
    ELSE IF \E kw \in StepKeywords : StartsWith(line, kw)
    THEN IF st.current_scenario # <<>>
         THEN [st EXCEPT !.current_scenario[1].steps = Append(@, line)]
         ELSE st
    ELSE [st EXCEPT !.scenarios = @ \o st.current_scenario, !.current_scenario = <<>>]

\* a variant in which a tag line ends the open scenario
ParseLineTagCloses(st, raw) ==
    LET line == Strip(raw) IN
    IF line = <<>> THEN st
    ELSE IF StartsWith(line, <<"@">>)
    THEN [scenarios |-> st.scenarios \o st.current_scenario,
          current_scenario |-> <<>>,
          current_tags |-> SplitWs(line, <<>>)]
    ELSE IF StartsWith(line, ScenarioKw)
    THEN [scenarios |-> st.scenarios \o st.current_scenario,
          current_scenario |-> << [title |-> Strip(Remove(line, ScenarioKw)),
                                   tags  |-> st.current_tags,
                                   steps |-> <<>>] >>,
          current_tags |-> <<>>]
    ELSE IF \E kw \in StepKeywords : StartsWith(line, kw)
    THEN IF st.current_scenario # <<>>
         THEN [st EXCEPT !.current_scenario[1].steps = Append(@, line)]
         ELSE st
    ELSE st

\* a variant that leaves the pending tags in place when a scenario takes them
ParseLineKeepingTags(st, raw) ==
    LET line == Strip(raw) IN
    IF line = <<>> THEN st
    ELSE IF StartsWith(line, <<"@">>)
    THEN [st EXCEPT !.current_tags = SplitWs(line, <<>>)]
    ELSE IF StartsWith(line, ScenarioKw)
    THEN [scenarios |-> st.scenarios \o st.current_scenario,
          current_scenario |-> << [title |-> Strip(Remove(line, ScenarioKw)),
                                   tags  |-> st.current_tags,
                                   steps |-> <<>>] >>,
          current_tags |-> st.current_tags]
    ELSE IF \E kw \in StepKeywords : StartsWith(line, kw)
    THEN IF st.current_scenario # <<>>
         THEN [st EXCEPT !.current_scenario[1].steps = Append(@, line)]
         ELSE st
    ELSE st

\* The body of the for loop (lines 173-205) on one raw line, as a function of
\* the parser state st = [scenarios, current_scenario, current_tags].
ParseLine(st, raw) ==
    LET line == Strip(raw) IN
    IF line = <<>> THEN st
    ELSE IF StartsWith(line, <<"@">>)
    THEN [st EXCEPT !.current_tags = SplitWs(line, <<>>)]
    ELSE IF StartsWith(line, ScenarioKw)
    THEN [scenarios |-> st.scenarios \o st.current_scenario,
          current_scenario |-> << [title |-> ScenarioTitle(line),
                                   tags  |-> st.current_tags,
                                   steps |-> <<>>] >>,
          current_tags |-> <<>>]
    ELSE IF IsStepLine(line)
    THEN IF st.current_scenario # <<>>
         THEN [st EXCEPT !.current_scenario[1].steps = Append(@, line)]
         ELSE st
    ELSE st

ParseFinishNoFlush(st) == st.scenarios

\* lines 207-211: flush the open scenario and return
ParseFinish(st) == st.scenarios \o st.current_scenario

ParseStart == [scenarios |-> <<>>, current_scenario |-> <<>>, current_tags |-> <<>>]

RECURSIVE ParseFold(_, _)
ParseFold(st, ls) ==
    IF ls = <<>> THEN st ELSE ParseFold(ParseLine(st, Head(ls)), Tail(ls))

\* the whole function
ParseAiResponse(text) == ParseFinish(ParseFold(ParseStart, SplitOn(text, "\n", <<>>)))

----
(* html_analyzer.py: the regular expressions, computed on the characters *)

\* Python values that may be None: <<>> is None, <<v>> is the value v
None == <<>>
Some(v) == <<v>>

\* x or default, where x is None or a str (the empty str is falsy)
OrElse(x, default) == IF x = None \/ x[1] = <<>> THEN default ELSE x[1]

Quotes == {"\"", "'"}

\* a match of  name\s*=\s*["']([^"']*)["']  that starts exactly at p (with
\* [^"']+ when min = 1): None, or the group and the position after the match
AttrMatchAt(s, low, p, name, min) ==
    IF ~OccursAt(low, p, name) THEN None
    ELSE LET q == SkipWs(s, p + Len(name)) IN
         IF ~(q <= Len(s) /\ s[q] = "=") THEN None
         ELSE LET r == SkipWs(s, q + 1) IN
              IF ~(r <= Len(s) /\ s[r] \in Quotes) THEN None
              ELSE LET t == FindCharFrom(s, r + 1, Quotes) IN
                   IF t = 0 \/ t - (r + 1) < min THEN None
                   ELSE Some([value |-> SubSeq(s, r + 1, t - 1), next |-> t + 1])

\* the leftmost position >= from where the pattern matches, 0 when none
AttrSearch(s, low, from, name, min) ==
    LET hits == {p \in from..Len(s) : AttrMatchAt(s, low, p, name, min) # None}
    IN IF hits = {} THEN 0 ELSE CHOOSE p \in hits : \A o \in hits : p <= o

\* _extract_attribute: re.search of the pattern, group 1 of the leftmost match
ExtractAttribute(attrs_string, attr_name) ==
    LET low == Lower(attrs_string)
        p == AttrSearch(attrs_string, low, 1, attr_name, 0)
    IN IF p = 0 THEN None
       ELSE Some(AttrMatchAt(attrs_string, low, p, attr_name, 0)[1].value)

\* re.findall(r'name\s*=\s*["\']([^"\']+)["\']', s, IGNORECASE) from from on
RECURSIVE FindAllAttrFrom(_, _, _, _)
FindAllAttrFrom(s, low, from, name) ==
    LET p == AttrSearch(s, low, from, name, 1) IN
    IF p = 0 THEN <<>>
    ELSE LET m == AttrMatchAt(s, low, p, name, 1)[1]
         IN <<m.value>> \o FindAllAttrFrom(s, low, m.next, name)

FindAllAttr(s, name) == FindAllAttrFrom(s, Lower(s), 1, name)

\* the characters of the regex class [\w-]
WordChars ==
    DOMAIN LowerOf \cup {LowerOf[c] : c \in DOMAIN LowerOf}
    \cup {"0","1","2","3","4","5","6","7","8","9","_","-"}

RECURSIVE SkipWord(_, _)
SkipWord(s, from) ==
    IF from <= Len(s) /\ s[from] \in WordChars THEN SkipWord(s, from + 1) ELSE from

\* a match of  (data-[\w-]+)\s*=\s*["']([^"']*)["']  that starts exactly at p
DataAttrMatchAt(s, low, p) ==
    IF ~OccursAt(low, p, <<"d","a","t","a","-">>) THEN None
    ELSE LET k == SkipWord(s, p + 5) IN
         IF k = p + 5 THEN None
         ELSE LET q == SkipWs(s, k) IN
              IF ~(q <= Len(s) /\ s[q] = "=") THEN None
              ELSE LET r == SkipWs(s, q + 1) IN
                   IF ~(r <= Len(s) /\ s[r] \in Quotes) THEN None
                   ELSE LET t == FindCharFrom(s, r + 1, Quotes) IN
                        IF t = 0 THEN None
                        ELSE Some([attribute |-> SubSeq(s, p, k - 1),
                                   value |-> SubSeq(s, r + 1, t - 1),
                                   next |-> t + 1])

RECURSIVE FindAllDataFrom(_, _, _)
FindAllDataFrom(s, low, from) ==
    LET hits == {p \in from..Len(s) : DataAttrMatchAt(s, low, p) # None} IN
    IF hits = {} THEN <<>>
    ELSE LET m == DataAttrMatchAt(s, low, CHOOSE p \in hits : \A o \in hits : p <= o)[1]
         IN << [attribute |-> m.attribute, value |-> m.value] >>
            \o FindAllDataFrom(s, low, m.next)

\* re.findall(r'<tag([^>]*)/?>', s, IGNORECASE) from position from on: the
\* greedy [^>]* runs to the first '>', so the group is all the text between
RECURSIVE OpenTagsFrom(_, _, _, _)
OpenTagsFrom(s, low, from, open) ==
    LET p == FindFrom(low, from, open) IN
    IF p = 0 THEN <<>>
    ELSE LET g == FindCharFrom(s, p + Len(open), {">"}) IN
         IF g = 0 THEN <<>>
         ELSE <<SubSeq(s, p + Len(open), g - 1)>> \o OpenTagsFrom(s, low, g + 1, open)

OpenTags(s, open) == OpenTagsFrom(s, Lower(s), 1, open)

\* re.findall(r'<tag([^>]*)>(.*?)</tag>', s, DOTALL | IGNORECASE) from position
\* from on: [^>]* runs to the first '>', the lazy .*? to the first closing tag
RECURSIVE PairedTagsFrom(_, _, _, _, _)
PairedTagsFrom(s, low, from, open, close) ==
    LET p == FindFrom(low, from, open) IN
    IF p = 0 THEN <<>>
    ELSE LET g == FindCharFrom(s, p + Len(open), {">"}) IN
         IF g = 0 THEN <<>>
         ELSE LET e == FindFrom(low, g + 1, close) IN
              IF e = 0 THEN <<>>
              ELSE << [attrs |-> SubSeq(s, p + Len(open), g - 1),
                       body  |-> SubSeq(s, g + 1, e - 1)] >>
                   \o PairedTagsFrom(s, low, e + Len(close), open, close)

PairedTags(s, open, close) == PairedTagsFrom(s, Lower(s), 1, open, close)

\* re.sub(r'<[^>]+>', '', s)
RECURSIVE StripTags(_)
StripTags(s) ==
    IF s = <<>> THEN <<>>
    ELSE IF Head(s) = "<"
    THEN LET g == FindCharFrom(s, 2, {">"}) IN
         IF g >= 3 THEN StripTags(SubSeq(s, g + 1, Len(s)))
         ELSE <<Head(s)>> \o StripTags(Tail(s))
    ELSE <<Head(s)>> \o StripTags(Tail(s))

\* str(i) for a natural number
Digit(d) == CASE d = 0 -> "0" [] d = 1 -> "1" [] d = 2 -> "2" [] d = 3 -> "3"
              [] d = 4 -> "4" [] d = 5 -> "5" [] d = 6 -> "6" [] d = 7 -> "7"
              [] d = 8 -> "8" [] d = 9 -> "9"
RECURSIVE IntStr(_)
IntStr(n) == IF n < 10 THEN <<Digit(n)>> ELSE Append(IntStr(n \div 10), Digit(n % 10))

----
(* html_analyzer.py: the extractors *)

InputInfoTextType(input_attrs) ==
    [type        |-> <<"t","e","x","t">>,
     name        |-> ExtractAttribute(input_attrs, <<"n","a","m","e">>),
     id          |-> ExtractAttribute(input_attrs, <<"i","d">>),
     placeholder |-> ExtractAttribute(input_attrs, <<"p","l","a","c","e","h","o","l","d","e","r">>),
     value       |-> ExtractAttribute(input_attrs, <<"v","a","l","u","e">>),
     required    |-> Contains(Lower(input_attrs), <<"r","e","q","u","i","r","e","d">>)]

\* _extract_inputs
InputInfo(input_attrs) ==
    [type        |-> OrElse(ExtractAttribute(input_attrs, <<"t","y","p","e">>), <<"t","e","x","t">>),
     name        |-> ExtractAttribute(input_attrs, <<"n","a","m","e">>),
     id          |-> ExtractAttribute(input_attrs, <<"i","d">>),
     placeholder |-> ExtractAttribute(input_attrs, <<"p","l","a","c","e","h","o","l","d","e","r">>),
     value       |-> ExtractAttribute(input_attrs, <<"v","a","l","u","e">>),
     required    |-> Contains(Lower(input_attrs), <<"r","e","q","u","i","r","e","d">>)]

ExtractInputs(content) ==
    LET input_matches == OpenTags(content, <<"<","i","n","p","u","t">>)
    IN [i \in 1..Len(input_matches) |-> InputInfo(input_matches[i])]

\* a variant that takes only the submit type for a button
HasSubmitType(attrs) ==
    LET low == Lower(attrs) IN
    \E p \in 1..Len(attrs) :
        /\ OccursAt(low, p, <<"t","y","p","e">>)
        /\ LET q == SkipWs(attrs, p + 4) IN
           /\ q <= Len(attrs) /\ attrs[q] = "="
           /\ LET r == SkipWs(attrs, q + 1) IN
              /\ r <= Len(attrs) /\ attrs[r] \in Quotes
              /\ OccursAt(low, r + 1, <<"s","u","b","m","i","t">>)
              /\ r + 7 <= Len(attrs)
              /\ attrs[r + 7] \in Quotes

\* does  type\s*=\s*["'](?:button|submit|reset)["']  match somewhere in attrs
HasButtonType(attrs) ==
    LET low == Lower(attrs) IN
    \E p \in 1..Len(attrs) :
        /\ OccursAt(low, p, <<"t","y","p","e">>)
        /\ LET q == SkipWs(attrs, p + 4) IN
           /\ q <= Len(attrs) /\ attrs[q] = "="
           /\ LET r == SkipWs(attrs, q + 1) IN
              /\ r <= Len(attrs) /\ attrs[r] \in Quotes
              /\ \E v \in {<<"b","u","t","t","o","n">>, <<"s","u","b","m","i","t">>, <<"r","e","s","e","t">>} :
                    /\ OccursAt(low, r + 1, v)
                    /\ r + 1 + Len(v) <= Len(attrs)
                    /\ attrs[r + 1 + Len(v)] \in Quotes

\* _extract_buttons: the <button> elements first, then the button-typed inputs
ExtractButtons(content) ==
    LET button_matches == PairedTags(content, <<"<","b","u","t","t","o","n">>, <<"<","/","b","u","t","t","o","n",">">>)
        input_button_matches == SelectSeq(OpenTags(content, <<"<","i","n","p","u","t">>), HasButtonType)
    IN [i \in 1..Len(button_matches) |->
           [type  |-> Some(OrElse(ExtractAttribute(button_matches[i].attrs, <<"t","y","p","e">>), <<"b","u","t","t","o","n">>)),
            text  |-> Some(Strip(StripTags(button_matches[i].body))),
            id    |-> ExtractAttribute(button_matches[i].attrs, <<"i","d">>),
            class |-> ExtractAttribute(button_matches[i].attrs, <<"c","l","a","s","s">>)]]
       \o
       [i \in 1..Len(input_button_matches) |->
           [type  |-> ExtractAttribute(input_button_matches[i], <<"t","y","p","e">>),
            text  |-> ExtractAttribute(input_button_matches[i], <<"v","a","l","u","e">>),
            id    |-> ExtractAttribute(input_button_matches[i], <<"i","d">>),
            class |-> ExtractAttribute(input_button_matches[i], <<"c","l","a","s","s">>)]]

\* a variant that numbers the forms from 1
ExtractFormsCountingFromOne(content) ==
    LET form_matches == PairedTags(content, <<"<","f","o","r","m">>, <<"<","/","f","o","r","m",">">>)
    IN [i \in 1..Len(form_matches) |->
           [form_id |-> <<"f","o","r","m","_">> \o IntStr(i),
            action  |-> ExtractAttribute(form_matches[i].attrs, <<"a","c","t","i","o","n">>),
            method  |-> OrElse(ExtractAttribute(form_matches[i].attrs, <<"m","e","t","h","o","d">>), <<"G","E","T">>),
            inputs  |-> ExtractInputs(form_matches[i].body),
            buttons |-> ExtractButtons(form_matches[i].body)]]

\* _extract_forms
ExtractForms(content) ==
    LET form_matches == PairedTags(content, <<"<","f","o","r","m">>, <<"<","/","f","o","r","m",">">>)
    IN [i \in 1..Len(form_matches) |->
           [form_id |-> <<"f","o","r","m","_">> \o IntStr(i - 1),
            action  |-> ExtractAttribute(form_matches[i].attrs, <<"a","c","t","i","o","n">>),
            method  |-> OrElse(ExtractAttribute(form_matches[i].attrs, <<"m","e","t","h","o","d">>), <<"G","E","T">>),
            inputs  |-> ExtractInputs(form_matches[i].body),
            buttons |-> ExtractButtons(form_matches[i].body)]]


\* list(set(xs)): the order of the list is not determined, so a set models it
ToSet(xs) == {xs[i] : i \in 1..Len(xs)}

\* _extract_ids, _extract_classes, _extract_names
ExtractIds(content) == ToSet(FindAllAttr(content, <<"i","d">>))
ExtractNames(content) == ToSet(FindAllAttr(content, <<"n","a","m","e">>))
ExtractClasses(content) ==
    LET class_matches == FindAllAttr(content, <<"c","l","a","s","s">>)
    IN UNION {ToSet(SplitWs(class_matches[i], <<>>)) : i \in 1..Len(class_matches)}

\* _extract_data_attributes
ExtractDataAttributes(content) == FindAllDataFrom(content, Lower(content), 1)

\* _extract_links
ExtractLinks(content) ==
    LET link_matches == PairedTags(content, <<"<","a">>, <<"<","/","a",">">>)
    IN [i \in 1..Len(link_matches) |->
           [href   |-> ExtractAttribute(link_matches[i].attrs, <<"h","r","e","f">>),
            text   |-> Strip(StripTags(link_matches[i].body)),
            id     |-> ExtractAttribute(link_matches[i].attrs, <<"i","d">>),
            class  |-> ExtractAttribute(link_matches[i].attrs, <<"c","l","a","s","s">>),
            target |-> ExtractAttribute(link_matches[i].attrs, <<"t","a","r","g","e","t">>)]]

\* _extract_headings: level by level, h1 first
HeadingsOfLevel(content, level) ==
    LET hn == <<"h">> \o IntStr(level)
        matches == PairedTags(content, <<"<">> \o hn, <<"<","/">> \o hn \o <<">">>)
    IN [i \in 1..Len(matches) |->
           [level |-> hn,
            text  |-> Strip(StripTags(matches[i].body)),
            id    |-> ExtractAttribute(matches[i].attrs, <<"i","d">>),
            class |-> ExtractAttribute(matches[i].attrs, <<"c","l","a","s","s">>)]]

ExtractHeadings(content) ==
    HeadingsOfLevel(content, 1) \o HeadingsOfLevel(content, 2)
    \o HeadingsOfLevel(content, 3) \o HeadingsOfLevel(content, 4)
    \o HeadingsOfLevel(content, 5) \o HeadingsOfLevel(content, 6)

\* _extract_images
ExtractImages(content) ==
    LET img_matches == OpenTags(content, <<"<","i","m","g">>)
    IN [i \in 1..Len(img_matches) |->
           [src   |-> ExtractAttribute(img_matches[i], <<"s","r","c">>),
            alt   |-> ExtractAttribute(img_matches[i], <<"a","l","t">>),
            id    |-> ExtractAttribute(img_matches[i], <<"i","d">>),
            class |-> ExtractAttribute(img_matches[i], <<"c","l","a","s","s">>)]]

\* _extract_tables
ExtractTables(content) ==
    LET table_matches == PairedTags(content, <<"<","t","a","b","l","e">>, <<"<","/","t","a","b","l","e",">">>)
    IN [i \in 1..Len(table_matches) |->
           [table_id |-> <<"t","a","b","l","e","_">> \o IntStr(i - 1),
            id       |-> ExtractAttribute(table_matches[i].attrs, <<"i","d">>),
            class    |-> ExtractAttribute(table_matches[i].attrs, <<"c","l","a","s","s">>),
            rows     |-> Len(OpenTags(table_matches[i].body, <<"<","t","r">>)),
            headers  |-> Len(OpenTags(table_matches[i].body, <<"<","t","h">>))]]

\* _generate_summary
GenerateSummary(elements) ==
    [total_ids             |-> Cardinality(elements.ids),
     total_classes         |-> Cardinality(elements.classes),
     total_names           |-> Cardinality(elements.names),
     total_forms           |-> Len(elements.forms),
     total_inputs          |-> Len(elements.inputs),
     total_buttons         |-> Len(elements.buttons),
     total_links           |-> Len(elements.links),
     total_headings        |-> Len(elements.headings),
     total_images          |-> Len(elements.images),
     total_tables          |-> Len(elements.tables),
     total_data_attributes |-> Len(elements.data_attributes)]

\* {} of Python: a dict without keys
EmptyDict == <<>>

\* analyze: file is [path, readable, content]; open() or read() raising is
\* readable = FALSE.  The advisory xpaths list is left out: its id and class
\* entries follow the undetermined order of list(set(...)).
Analyze(file) ==
    IF ~file.readable
    THEN [file_path |-> file.path, framework |-> <<"H","T","M","L">>, error |-> "OSError",
          elements |-> EmptyDict, summary |-> EmptyDict]
    ELSE LET content == file.content
             elements ==
                 [ids             |-> ExtractIds(content),
                  classes         |-> ExtractClasses(content),
                  names           |-> ExtractNames(content),
                  data_attributes |-> ExtractDataAttributes(content),
                  forms           |-> ExtractForms(content),
                  inputs          |-> ExtractInputs(content),
                  buttons         |-> ExtractButtons(content),
                  links           |-> ExtractLinks(content),
                  headings        |-> ExtractHeadings(content),
                  images          |-> ExtractImages(content),
                  tables          |-> ExtractTables(content)]
         IN [file_path |-> file.path, framework |-> <<"H","T","M","L">>,
             elements |-> elements, summary |-> GenerateSummary(elements)]

\* list(set(names)) of line 88 as a list: the elements of the set, each once,
\* in the order of the string hashes of the running process; seed gives each
\* string its place in that order
RECURSIVE ListOfSet(_, _)
ListOfSet(S, seed) ==
    IF S = {} THEN <<>>
    ELSE LET first == CHOOSE x \in S : \A y \in S : seed[x] <= seed[y]
         IN <<first>> \o ListOfSet(S \ {first}, seed)

\* the catalog with its names as the list of the running process
WithNames(cat, seed) ==
    IF "names" \in DOMAIN cat.elements
    THEN [cat EXCEPT !.elements.names = ListOfSet(@, seed)]
    ELSE cat

\* analyze() in a process whose string hashes order the names by seed
AnalyzeInProcess(file, seed) == WithNames(Analyze(file), seed)

----
(* gherkin_generator.py: _combine_analysis_results *)

\* repr() of a str without quote characters: the escapes of the characters
\* the model's documents can hold
ReprChar(c) ==
    CASE c = "\\" -> <<"\\","\\">>
      [] c = "\n" -> <<"\\", "n">>
      [] c = "\t" -> <<"\\", "t">>
      [] c = "\r" -> <<"\\", "r">>
      [] c = "\f" -> <<"\\", "x", "0", "c">>
      [] OTHER -> <<c>>

RECURSIVE ReprBody(_)
ReprBody(s) == IF s = <<>> THEN <<>> ELSE ReprChar(Head(s)) \o ReprBody(Tail(s))

ReprStr(s) == <<"'">> \o ReprBody(s) \o <<"'">>
ReprOpt(x) == IF x = None THEN <<"N","o","n","e">> ELSE ReprStr(x[1])
ReprBool(b) == IF b THEN <<"T","r","u","e">> ELSE <<"F","a","l","s","e">>

\* str(input_field) for a dict as _extract_inputs builds it
StrInput(input_field) ==
    <<"{","'","t","y","p","e","'",":"," ">> \o ReprStr(input_field.type)
    \o <<","," ","'","n","a","m","e","'",":"," ">> \o ReprOpt(input_field.name)
    \o <<","," ","'","i","d","'",":"," ">> \o ReprOpt(input_field.id)
    \o <<","," ","'","p","l","a","c","e","h","o","l","d","e","r","'",":"," ">> \o ReprOpt(input_field.placeholder)
    \o <<","," ","'","v","a","l","u","e","'",":"," ">> \o ReprOpt(input_field.value)
    \o <<","," ","'","r","e","q","u","i","r","e","d","'",":"," ">> \o ReprBool(input_field.required) \o <<"}">>

\* line 306
AuthIndicators == {<<"l","o","g","i","n">>, <<"p","a","s","s","w","o","r","d">>, <<"u","s","e","r","n","a","m","e">>, <<"e","m","a","i","l">>, <<"s","i","g","n","i","n">>, <<"a","u","t","h">>}

InputIsAuthCaseSensitive(input_field) ==
    \E indicator \in AuthIndicators : Contains(StrInput(input_field), indicator)

\* line 309: any(indicator in str(input_field).lower() for indicator in ...)
InputIsAuth(input_field) ==
    LET text == Lower(StrInput(input_field))
    IN \E indicator \in AuthIndicators : Contains(text, indicator)

\* elements.get(key, default)
DictGet(d, key, default) == IF key \in DOMAIN d THEN d[key] ELSE default

\* lines 307-311
FormsHaveAuth(elements) ==
    LET forms == DictGet(elements, "forms", <<>>)
    IN \E i \in 1..Len(forms) :
         \E j \in 1..Len(DictGet(forms[i], "inputs", <<>>)) :
            InputIsAuth(forms[i].inputs[j])

ListKeys == {"forms", "inputs", "buttons", "links", "headings", "images", "tables"}
SetKeys == {"ids", "classes"}

\* lines 266-283
CombinedEmpty ==
    [frameworks |-> {},
     all_elements |-> [k \in ListKeys \cup SetKeys |-> IF k \in SetKeys THEN {} ELSE <<>>],
     has_forms |-> FALSE,
     has_navigation |-> FALSE,
     has_authentication |-> FALSE,
     files_analyzed |-> <<>>]

\* a variant that keeps, for each list kind, only the elements of the last result
CombineOneOverwriting(combined, res) ==
    LET c1 == IF "framework" \in DOMAIN res
              THEN [combined EXCEPT !.frameworks = @ \cup {res.framework}]
              ELSE combined
        c2 == IF "file_path" \in DOMAIN res
              THEN [c1 EXCEPT !.files_analyzed = Append(@, res.file_path)]
              ELSE c1
    IN IF "elements" \notin DOMAIN res THEN c2
       ELSE LET elements == res.elements IN
            [c2 EXCEPT
               !.all_elements =
                   [k \in ListKeys \cup SetKeys |->
                       IF k \notin DOMAIN elements THEN @[k]
                       ELSE IF k \in SetKeys THEN @[k] \cup elements[k]
                       ELSE elements[k]],
               !.has_forms = @ \/ DictGet(elements, "forms", <<>>) # <<>>,
               !.has_navigation = @ \/ DictGet(elements, "links", <<>>) # <<>>,
               !.has_authentication = @ \/ FormsHaveAuth(elements)]

\* the body of the loop of lines 285-311 for one result; the ids and classes
\* lists are kept as sets, which is what lines 313-316 make of them
CombineOne(combined, res) ==
    LET c1 == IF "framework" \in DOMAIN res
              THEN [combined EXCEPT !.frameworks = @ \cup {res.framework}]
              ELSE combined
        c2 == IF "file_path" \in DOMAIN res
              THEN [c1 EXCEPT !.files_analyzed = Append(@, res.file_path)]
              ELSE c1
    IN IF "elements" \notin DOMAIN res THEN c2
       ELSE LET elements == res.elements IN
            [c2 EXCEPT
               !.all_elements =
                   [k \in ListKeys \cup SetKeys |->
                       IF k \notin DOMAIN elements THEN @[k]
                       ELSE IF k \in SetKeys THEN @[k] \cup elements[k]
                       ELSE @[k] \o elements[k]],
               !.has_forms = @ \/ DictGet(elements, "forms", <<>>) # <<>>,
               !.has_navigation = @ \/ DictGet(elements, "links", <<>>) # <<>>,
               !.has_authentication = @ \/ FormsHaveAuth(elements)]

RECURSIVE CombineFold(_, _)
CombineFold(combined, results) ==
    IF results = <<>> THEN combined
    ELSE CombineFold(CombineOne(combined, Head(results)), Tail(results))

\* lines 318-325
CombinedSummary(combined) ==
    [frameworks_detected     |-> combined.frameworks,
     total_files             |-> Len(combined.files_analyzed),
     total_forms             |-> Len(combined.all_elements.forms),
     total_buttons           |-> Len(combined.all_elements.buttons),
     total_links             |-> Len(combined.all_elements.links),
     has_authentication_flow |-> combined.has_authentication]

CombineAnalysisResults(results) ==
    LET combined == CombineFold(CombinedEmpty, results)
    IN [frameworks         |-> combined.frameworks,
        all_elements       |-> combined.all_elements,
        has_forms          |-> combined.has_forms,
        has_navigation     |-> combined.has_navigation,
        has_authentication |-> combined.has_authentication,
        files_analyzed     |-> combined.files_analyzed,
        summary            |-> CombinedSummary(combined)]

----
(* gherkin_generator.py: rule templates and rendering *)

\* lines 335-345
AuthenticationScenario ==
    [title |-> <<"U","s","e","r"," ","A","u","t","h","e","n","t","i","c","a","t","i","o","n"," ","w","i","t","h"," ","V","a","l","i","d"," ","C","r","e","d","e","n","t","i","a","l","s">>,
     tags  |-> << <<"@","s","m","o","k","e">>, <<"@","a","u","t","h","e","n","t","i","c","a","t","i","o","n">>, <<"@","a","u","t","o","m","a","t","i","o","n">> >>,
     steps |-> << <<"G","i","v","e","n"," ","I"," ","a","m"," ","o","n"," ","t","h","e"," ","l","o","g","i","n"," ","p","a","g","e">>,
                  <<"W","h","e","n"," ","I"," ","e","n","t","e","r"," ","v","a","l","i","d"," ","u","s","e","r","n","a","m","e"," ","a","n","d"," ","p","a","s","s","w","o","r","d">>,
                  <<"A","n","d"," ","I"," ","c","l","i","c","k"," ","t","h","e"," ","l","o","g","i","n"," ","b","u","t","t","o","n">>,
                  <<"T","h","e","n"," ","I"," ","s","h","o","u","l","d"," ","b","e"," ","r","e","d","i","r","e","c","t","e","d"," ","t","o"," ","t","h","e"," ","d","a","s","h","b","o","a","r","d">>,
                  <<"A","n","d"," ","I"," ","s","h","o","u","l","d"," ","s","e","e"," ","a"," ","w","e","l","c","o","m","e"," ","m","e","s","s","a","g","e">> >>]

\* lines 348-357
PageLoadScenario ==
    [title |-> <<"P","a","g","e"," ","L","o","a","d"," ","a","n","d"," ","B","a","s","i","c"," ","F","u","n","c","t","i","o","n","a","l","i","t","y">>,
     tags  |-> << <<"@","s","m","o","k","e">>, <<"@","u","i">>, <<"@","a","u","t","o","m","a","t","i","o","n">> >>,
     steps |-> << <<"G","i","v","e","n"," ","I"," ","n","a","v","i","g","a","t","e"," ","t","o"," ","t","h","e"," ","a","p","p","l","i","c","a","t","i","o","n">>,
                  <<"W","h","e","n"," ","t","h","e"," ","p","a","g","e"," ","l","o","a","d","s"," ","c","o","m","p","l","e","t","e","l","y">>,
                  <<"T","h","e","n"," ","a","l","l"," ","e","l","e","m","e","n","t","s"," ","s","h","o","u","l","d"," ","b","e"," ","d","i","s","p","l","a","y","e","d"," ","c","o","r","r","e","c","t","l","y">>,
                  <<"A","n","d"," ","t","h","e","r","e"," ","s","h","o","u","l","d"," ","b","e"," ","n","o"," ","J","a","v","a","S","c","r","i","p","t"," ","e","r","r","o","r","s">> >>]

GenerateRuleBasedScenariosOnForms(analysis) ==
    (IF analysis.has_forms THEN <<AuthenticationScenario>> ELSE <<>>)
    \o <<PageLoadScenario>>

\* _generate_rule_based_scenarios
GenerateRuleBasedScenarios(analysis) ==
    (IF analysis.has_authentication THEN <<AuthenticationScenario>> ELSE <<>>)
    \o <<PageLoadScenario>>

\* list(set) in some order: the sets of the model hold at most one framework
RECURSIVE SetToList(_)
SetToList(S) ==
    IF S = {} THEN <<>> ELSE LET x == CHOOSE x \in S : TRUE IN <<x>> \o SetToList(S \ {x})

\* lines 217-221 and 363-364
FeatureName(analysis) ==
    LET frameworks == SetToList(analysis.summary.frameworks_detected)
    IN IF frameworks # <<>> THEN Join(frameworks, <<","," ">>) \o <<" ","A","p","p","l","i","c","a","t","i","o","n"," ","T","e","s","t","i","n","g">>
       ELSE <<"W","e","b"," ","A","p","p","l","i","c","a","t","i","o","n"," ","T","e","s","t","i","n","g">>

\* lines 225-236 and 367-376
HeaderLines(analysis) ==
    << <<"F","e","a","t","u","r","e",":"," ">> \o FeatureName(analysis),
       <<" "," ","A","s"," ","a"," ","q","u","a","l","i","t","y"," ","a","s","s","u","r","a","n","c","e"," ","e","n","g","i","n","e","e","r">>,
       <<" "," ","I"," ","w","a","n","t"," ","t","o"," ","t","e","s","t"," ","a","l","l"," ","a","s","p","e","c","t","s"," ","o","f"," ","t","h","e"," ","w","e","b"," ","a","p","p","l","i","c","a","t","i","o","n">>,
       <<" "," ","S","o"," ","t","h","a","t"," ","I"," ","c","a","n"," ","e","n","s","u","r","e"," ","q","u","a","l","i","t","y"," ","a","n","d"," ","r","e","l","i","a","b","i","l","i","t","y">>,
       <<>>,
       <<" "," ","B","a","c","k","g","r","o","u","n","d",":">>,
       <<" "," "," "," ","G","i","v","e","n"," ","t","h","e"," ","w","e","b"," ","a","p","p","l","i","c","a","t","i","o","n"," ","i","s"," ","r","u","n","n","i","n","g"," ","a","n","d"," ","a","c","c","e","s","s","i","b","l","e">>,
       <<" "," "," "," ","A","n","d"," ","I"," ","h","a","v","e"," ","a"," ","c","l","e","a","n"," ","b","r","o","w","s","e","r"," ","s","e","s","s","i","o","n">>,
       <<>> >>

\* a variant that writes the tag line of a scenario without tags too
ScenarioLinesTagsAlways(scenario) ==
    << <<" "," ">> \o Join(scenario.tags, <<" ">>) >>
    \o << <<" "," ","S","c","e","n","a","r","i","o",":"," ">> \o scenario.title >>
    \o [i \in 1..Len(scenario.steps) |-> <<" "," "," "," ">> \o scenario.steps[i]]
    \o << <<>> >>

\* lines 239-251 and 378-384, for one scenario
ScenarioLines(scenario) ==
    (IF scenario.tags # <<>> THEN << <<" "," ">> \o Join(scenario.tags, <<" ">>) >> ELSE <<>>)
    \o << <<" "," ","S","c","e","n","a","r","i","o",":"," ">> \o scenario.title >>
    \o [i \in 1..Len(scenario.steps) |-> <<" "," "," "," ">> \o scenario.steps[i]]
    \o << <<>> >>

RECURSIVE AllScenarioLines(_)
AllScenarioLines(scs) ==
    IF scs = <<>> THEN <<>> ELSE ScenarioLines(Head(scs)) \o AllScenarioLines(Tail(scs))

\* datetime.now().strftime(...): the clock is outside the model
Timestamp == <<"Y","Y","Y","Y","-","M","M","-","D","D"," ","H","H",":","M","M",":","S","S">>

\* OllamaProvider.model, ollama_provider.py line 13
ModelName == <<"l","l","a","m","a","3",".","2",":","3","b">>

\* _build_feature_file_from_ai
BuildFeatureFileFromAi(scs, analysis) ==
    Join(HeaderLines(analysis) \o AllScenarioLines(scs)
         \o << <<"#"," ","G","e","n","e","r","a","t","e","d"," ","b","y"," ","A","I"," ","T","e","s","t","i","n","g"," ","F","r","a","m","e","w","o","r","k"," ","u","s","i","n","g"," ","A","I">>,
               <<"#"," ","A","I"," ","M","o","d","e","l",":"," ">> \o ModelName,
               <<"#"," ","A","n","a","l","y","s","i","s"," ","S","u","m","m","a","r","y",":">>,
               <<"#"," "," "," ","F","i","l","e","s"," ","a","n","a","l","y","z","e","d",":"," ">> \o IntStr(analysis.summary.total_files),
               <<"#"," "," "," ","F","o","r","m","s"," ","f","o","u","n","d",":"," ">> \o IntStr(analysis.summary.total_forms),
               <<"#"," "," "," ","A","u","t","h","e","n","t","i","c","a","t","i","o","n"," ","f","l","o","w",":"," ">>
                    \o ReprBool(analysis.summary.has_authentication_flow),
               <<"#"," "," "," ","G","e","n","e","r","a","t","e","d"," ","a","t",":"," ">> \o Timestamp >>,
         <<"\n">>)

\* _build_feature_file
BuildFeatureFile(scs, analysis) ==
    Join(HeaderLines(analysis) \o AllScenarioLines(scs)
         \o << <<"#"," ","G","e","n","e","r","a","t","e","d"," ","b","y"," ","A","I"," ","T","e","s","t","i","n","g"," ","F","r","a","m","e","w","o","r","k"," ","(","r","u","l","e","-","b","a","s","e","d",")">>,
               <<"#"," ","G","e","n","e","r","a","t","e","d"," ","a","t",":"," ">> \o Timestamp >>,
         <<"\n">>)

----
(* gherkin_generator.py: _create_ai_prompt *)

\* xs[:n]
Take(xs, n) == SubSeq(xs, 1, IF Len(xs) < n THEN Len(xs) ELSE n)

\* The parts of the prompt that depend on the analysis.  str.join raises
\* TypeError on an item that is None: dict.get(key, default) returns the None
\* stored under a key that is present, not the default.
CreateAiPrompt(analysis) ==
    LET all_elements == analysis.all_elements
        button_types == [i \in 1..Len(Take(all_elements.buttons, 5)) |->
                            DictGet(all_elements.buttons[i], "type", Some(<<"b","u","t","t","o","n">>))]
        form_actions == [i \in 1..Len(Take(all_elements.forms, 3)) |->
                            DictGet(all_elements.forms[i], "action", Some(<<"u","n","k","n","o","w","n">>))]
    IN [raises |-> \/ \E i \in 1..Len(button_types) : button_types[i] = None
                   \/ \E i \in 1..Len(form_actions) : form_actions[i] = None,
        forms |-> Len(all_elements.forms),
        authentication |-> all_elements.forms # <<>> /\ analysis.has_authentication,
        buttons |-> Len(all_elements.buttons),
        links |-> Len(all_elements.links),
        tables |-> Len(all_elements.tables),
        images |-> Len(all_elements.images),
        frameworks |-> analysis.summary.frameworks_detected,
        files |-> analysis.summary.total_files,
        button_types |-> button_types,
        form_actions |-> form_actions]

----
(* Inputs of the parser: texts of at most MaxLines lines *)

TagLineA   == <<"@","s","m","o","k","e"," ","@","u","i">>
TagLineB   == <<" ","@","b"," ","c"," ">>
ScenLineA  == ScenarioKw \o <<" ","L","o","g","i","n"," ","w","o","r","k","s">>
ScenLineB  == ScenarioKw \o <<"A"," ">> \o ScenarioKw \o <<" ","B"," ">>
ScenLineC  == <<" "," ">> \o ScenarioKw \o <<" ","C","\r">>
StepLineA  == GivenKw \o <<" ","I"," ","a","m"," ","o","n"," ","l","o","g","i","n">>
StepLineB  == <<" "," ">> \o WhenKw \o <<" ","I"," ","s","u","b","m","i","t"," ">>
OtherLineA == <<"F","e","a","t","u","r","e",":"," ","x">>
BlankLine  == <<" ">>

LineSet == {TagLineA, TagLineB, ScenLineA, ScenLineB, ScenLineC, StepLineA,
            StepLineB, OtherLineA, BlankLine}

RECURSIVE SeqsUpTo(_, _)
SeqsUpTo(S, n) ==
    IF n = 0 THEN {<<>>}
    ELSE LET shorter == SeqsUpTo(S, n - 1)
         IN shorter \cup {Append(q, x) : q \in {r \in shorter : Len(r) = n - 1}, x \in S}

Texts == {Join(ls, <<"\n">>) : ls \in SeqsUpTo(LineSet, MaxLines)}

----
(* Inputs of the analyzer: documents of at most MaxFragments fragments *)

FormOpenLogin == <<"<","f","o","r","m"," ","a","c","t","i","o","n","=","\"","/","l","o","g","i","n","\""," ","m","e","t","h","o","d","=","\"","P","O","S","T","\"",">">>
InputPassword == <<"<","i","n","p","u","t"," ","t","y","p","e","=","\"","p","a","s","s","w","o","r","d","\""," ","n","a","m","e","=","\"","p","w","d","\"",">">>
FormClose     == <<"<","/","f","o","r","m",">">>
FormOpenBare  == <<"<","f","o","r","m",">">>
InputSubmit   == <<"<","i","n","p","u","t"," ","T","Y","P","E","=","'","s","u","b","m","i","t","'"," ","v","a","l","u","e","=","\"","G","o","\""," ","i","d","=","\"","g","o","\""," ","r","e","q","u","i","r","e","d","/",">">>
ButtonOk      == <<"<","b","u","t","t","o","n"," ","c","l","a","s","s","=","\"","b","t","n"," ","b","i","g","\""," ","i","d","=","\"","g","o","\"",">","O","K","<","/","b","u","t","t","o","n",">">>
InputNamed    == <<"<","i","n","p","u","t"," ","n","a","m","e","=","\"","q","\""," ","d","a","t","a","-","k","=","\"","v","\"",">">>

Fragments == {FormOpenLogin, InputPassword, FormClose, FormOpenBare, InputSubmit, ButtonOk,
              InputNamed}

HtmlFiles ==
    {[path |-> "page.html", readable |-> TRUE, content |-> Join(fs, <<>>)] :
        fs \in SeqsUpTo(Fragments, MaxFragments)}
    \cup {[path |-> "missing.html", readable |-> FALSE, content |-> <<>>]}

\* the name attributes the documents can hold, and the orders the string
\* hashes of a process can put them in (PYTHONHASHSEED)
NameUniverse == UNION {ExtractNames(f) : f \in Fragments}
HashSeeds ==
    {seed \in [NameUniverse -> 1..Cardinality(NameUniverse)] :
        \A x, y \in NameUniverse : x # y => seed[x] # seed[y]}

\* <form action="/login" method="POST"><input type="password" name="pwd"></form>
LoginDocument == FormOpenLogin \o InputPassword \o FormClose

----
(* The analyzer as a state machine: analyze one file, then aggregate it alone *)

HtmlIdle ==
    /\ html_file = [path |-> "page.html", readable |-> TRUE, content |-> <<>>]
    /\ catalog = <<>>
    /\ catalog_again = <<>>
    /\ view = <<>>
    /\ hpc = "idle"

HtmlInit ==
    /\ html_file \in HtmlFiles
    /\ catalog = <<>>
    /\ catalog_again = <<>>
    /\ view = <<>>
    /\ hpc = "start"

\* where a call of analyze() leaves its result: the first call of a run in
\* catalog, a further call on the same, unchanged file in catalog_again
KeepResult(found) ==
    IF hpc = "start"
    THEN /\ catalog' = <<found>>
         /\ hpc' = "analyzed"
         /\ UNCHANGED catalog_again
    ELSE /\ catalog_again' = <<found>>
         /\ hpc' = "reanalyzed"
         /\ UNCHANGED catalog

\* analyze() in one process: the names list comes out in the order the hash
\* seed of that process gives; the file may be analyzed once more, in this
\* or in another process
HtmlAnalyze ==
    /\ hpc \in {"start", "analyzed"}
    /\ \E seed \in HashSeeds : KeepResult(AnalyzeInProcess(html_file, seed))
    /\ UNCHANGED <<html_file, view>>
    /\ UNCHANGED <<parserVars, genVars, detVars>>

HtmlCombine ==
    /\ hpc \in {"analyzed", "reanalyzed"}
    /\ view' = <<CombineAnalysisResults(catalog)>>
    /\ hpc' = "combined"
    /\ UNCHANGED <<html_file, catalog, catalog_again>>
    /\ UNCHANGED <<parserVars, genVars, detVars>>

HtmlNext == HtmlAnalyze \/ HtmlCombine

----
(* Inputs of the analyzer made of whole elements: documents of at most
   MaxBlocks forms and tables, and documents of at most MaxControls buttons
   and inputs *)

SearchForm == <<"<","f","o","r","m",">","<","i","n","p","u","t"," ","t","y","p","e","=","\"","t","e","x","t","\""," ","n","a","m","e","=","\"","q","\"",">","<","/","f","o","r","m",">">>
UsersTable == <<"<","t","a","b","l","e"," ","i","d","=","\"","u","s","e","r","s","\"",">","<","t","r",">","<","t","h",">","n","<","/","t","h",">","<","/","t","r",">","<","t","r",">","<","t","d",">","a","<","/","t","d",">","<","/","t","r",">","<","/","t","a","b","l","e",">">>
BareTable  == <<"<","T","A","B","L","E",">","<","t","r",">","<","t","d",">","1","<","/","t","d",">","<","/","t","r",">","<","/","T","A","B","L","E",">">>

Blocks == {LoginDocument, SearchForm, UsersTable, BareTable}

InputReset    == <<"<","i","n","p","u","t"," ","t","y","p","e","=","\"","r","e","s","e","t","\"",">">>
InputButton   == <<"<","i","n","p","u","t"," ","t","y","p","e","=","\"","b","u","t","t","o","n","\""," ","v","a","l","u","e","=","\"","B","\"","/",">">>
InputCheckbox == <<"<","i","n","p","u","t"," ","t","y","p","e","=","\"","c","h","e","c","k","b","o","x","\""," ","c","h","e","c","k","e","d",">">>

Controls == {ButtonOk, InputSubmit, InputReset, InputButton, InputCheckbox}

BlockFiles ==
    {[path |-> "blocks.html", readable |-> TRUE, content |-> Join(bs, <<>>), blocks |-> bs] :
        bs \in SeqsUpTo(Blocks, MaxBlocks) \cup SeqsUpTo(Controls, MaxControls)}

BlocksInit ==
    /\ html_file \in BlockFiles
    /\ catalog = <<>>
    /\ catalog_again = <<>>
    /\ view = <<>>
    /\ hpc = "start"

----
(* Inputs of generate(): batches of catalogs the analyzer produces, the
   options, and the answers of the collaborator *)

SearchDocument == FormOpenBare \o <<"<","i","n","p","u","t"," ","t","y","p","e","=","\"","t","e","x","t","\""," ","n","a","m","e","=","\"","q","\"",">">> \o FormClose
LooseDocument  == InputPassword \o ButtonOk
MixedDocument  == <<"<","f","o","r","m"," ","a","c","t","i","o","n","=","\"","/","s","\"",">","<","i","n","p","u","t"," ","n","a","m","e","=","\"","U","s","e","r","E","m","a","i","l","\"",">","<","/","f","o","r","m",">">>

GenFiles ==
    {[path |-> "search.html",  readable |-> TRUE,  content |-> SearchDocument],
     [path |-> "loose.html",   readable |-> TRUE,  content |-> LooseDocument],
     [path |-> "mixed.html",   readable |-> TRUE,  content |-> MixedDocument],
     [path |-> "missing.html", readable |-> FALSE, content |-> <<>>]}

Catalogs == {Analyze(f) : f \in GenFiles}

Batches == SeqsUpTo(Catalogs, MaxBatch)

\* generate(results), generate(results, {'use_ai': True}), ... {'use_ai': False}
OptionsSet == {EmptyDict, [use_ai |-> TRUE], [use_ai |-> FALSE]}

ScenarioText == Join(<<TagLineA, ScenLineA, StepLineA, StepLineB>>, <<"\n">>)
ProseText    == <<"S","o","r","r","y",","," ","I"," ","c","a","n","n","o","t"," ","h","e","l","p",".","\n">>
TwoScenarioText == Join(<<ScenLineC, StepLineA, TagLineA, ScenLineA>>, <<"\n">>)
\* a title line in which deleting 'Scenario:' leaves a new 'Scenario:'
NestedTitleText == ScenarioKw \o <<" ","S","c","e","n","a">> \o ScenarioKw \o <<"r","i","o",":"," ","X","\n">> \o StepLineA

\* status 200 with a text, another status, or an exception of requests.post
\* or of response.json()["response"] (timeout, reset, malformed body)
Replies ==
    {[kind |-> "ok", text |-> ScenarioText],
     [kind |-> "ok", text |-> ProseText],
     [kind |-> "ok", text |-> TwoScenarioText],
     [kind |-> "ok", text |-> NestedTitleText],
     [kind |-> "ok", text |-> <<>>],
     [kind |-> "http_error", text |-> <<>>],
     [kind |-> "exception", text |-> <<>>]}

----
(* ollama_provider.py and generate() as a state machine *)

\* is_available
IsAvailable(up) == up

\* generate_text after the probe succeeded, lines 30-49: None or the text
PostResult(up, reply) ==
    IF ~up THEN None                       \* connection error, caught at line 47
    ELSE IF reply.kind = "ok" THEN Some(reply.text)
    ELSE None

TryAiIgnoringOption(enabled, opts) == enabled

\* line 54
TryAi(enabled, opts) == enabled /\ DictGet(opts, "use_ai", TRUE)

AfterGenerateTextRetry(resp) ==
    IF resp = None \/ resp[1] = <<>> THEN "probe" ELSE "parse"

\* where generate() goes with what generate_text returned (lines 92-93)
AfterGenerateText(resp) == IF resp = None \/ resp[1] = <<>> THEN "rule" ELSE "parse"

\* where generate() goes with what _generate_with_ai returned (line 58)
AfterParse(scs) == IF scs # <<>> THEN "done" ELSE "rule"

\* a variant that reports the number of steps as the scenario count
ResultDictCountingSteps(content, method, scs, analysis) ==
    [content |-> content, format |-> "gherkin", generation_method |-> method,
     scenarios_count |-> Len(AllScenarioLines(scs)) - 2 * Len(scs),
     analysis_summary |-> analysis.summary]

\* the dict generate() returns; generated_at, a clock reading, is left out
ResultDict(content, method, scs, analysis) ==
    [content |-> content, format |-> "gherkin", generation_method |-> method,
     scenarios_count |-> Len(scs), analysis_summary |-> analysis.summary]

GenIdle ==
    /\ ollama_up = FALSE
    /\ ollama_reply = [kind |-> "exception", text |-> <<>>]
    /\ ai_enabled = FALSE
    /\ analysis_results = <<>>
    /\ options = EmptyDict
    /\ combined_analysis = <<>>
    /\ prompt = <<>>
    /\ response = None
    /\ ai_scenarios = <<>>
    /\ rb_scenarios = <<>>
    /\ probes = 0
    /\ posts = 0
    /\ result = <<>>
    /\ gpc = "off"

\* __init__: the probe of line 16 latches ai_enabled
GenInit ==
    /\ ollama_up \in BOOLEAN
    /\ ollama_reply \in Replies
    /\ ai_enabled = IsAvailable(ollama_up)
    /\ analysis_results = <<>>
    /\ options = EmptyDict
    /\ combined_analysis = <<>>
    /\ prompt = <<>>
    /\ response = None
    /\ ai_scenarios = <<>>
    /\ rb_scenarios = <<>>
    /\ probes = 0
    /\ posts = 0
    /\ result = <<>>
    /\ gpc = "idle"

\* the collaborator goes up or down, or changes how it answers
OllamaChange ==
    /\ gpc # "off"
    /\ \E up \in BOOLEAN, reply \in Replies :
          /\ <<up, reply>> # <<ollama_up, ollama_reply>>
          /\ ollama_up' = up
          /\ ollama_reply' = reply
    /\ UNCHANGED <<ai_enabled, callVars>>
    /\ UNCHANGED <<parserVars, htmlVars, detVars>>

\* a caller enters generate(): lines 46-48
GenStart ==
    /\ gpc \in {"idle", "done", "raised"}
    /\ \E batch \in Batches, opts \in OptionsSet :
          /\ analysis_results' = batch
          /\ options' = opts
    /\ combined_analysis' = <<>>
    /\ prompt' = <<>>
    /\ response' = None
    /\ ai_scenarios' = <<>>
    /\ rb_scenarios' = <<>>
    /\ probes' = 0
    /\ posts' = 0
    /\ result' = <<>>
    /\ gpc' = "combine"
    /\ UNCHANGED <<envVars, ai_enabled>>
    /\ UNCHANGED <<parserVars, htmlVars, detVars>>

\* a variant in which the lists of the combined view are the lists of the
\* first catalog, so that extending them changes the caller's catalog
GenCombineInPlace ==
    /\ gpc = "combine"
    /\ combined_analysis' = <<CombineAnalysisResults(analysis_results)>>
    /\ analysis_results' =
          IF analysis_results # <<>> /\ "forms" \in DOMAIN analysis_results[1].elements
          THEN [analysis_results EXCEPT
                   ![1].elements.forms = combined_analysis'[1].all_elements.forms]
          ELSE analysis_results
    /\ gpc' = IF TryAi(ai_enabled, options) THEN "prompt" ELSE "rule"
    /\ UNCHANGED <<envVars, ai_enabled, options, prompt, response,
                   ai_scenarios, rb_scenarios, probes, posts, result>>
    /\ UNCHANGED <<parserVars, htmlVars, detVars>>

\* lines 51-54
GenCombine ==
    /\ gpc = "combine"
    /\ combined_analysis' = <<CombineAnalysisResults(analysis_results)>>
    /\ gpc' = IF TryAi(ai_enabled, options) THEN "prompt" ELSE "rule"
    /\ UNCHANGED <<envVars, ai_enabled, analysis_results, options, prompt, response,
                   ai_scenarios, rb_scenarios, probes, posts, result>>
    /\ UNCHANGED <<parserVars, htmlVars, detVars>>

\* line 87: an exception of _create_ai_prompt leaves generate()
GenPrompt ==
    /\ gpc = "prompt"
    /\ LET built == CreateAiPrompt(combined_analysis[1]) IN
       IF built.raises
       THEN gpc' = "raised" /\ prompt' = <<>>
       ELSE gpc' = "probe" /\ prompt' = <<built>>
    /\ UNCHANGED <<envVars, ai_enabled, analysis_results, options, combined_analysis,
                   response, ai_scenarios, rb_scenarios, probes, posts, result>>
    /\ UNCHANGED <<parserVars, htmlVars, detVars>>

\* generate_text, lines 26-28
GenProbe ==
    /\ gpc = "probe"
    /\ probes' = probes + 1
    /\ gpc' = IF IsAvailable(ollama_up) THEN "post" ELSE AfterGenerateText(None)
    /\ UNCHANGED <<envVars, ai_enabled, analysis_results, options, combined_analysis,
                   prompt, response, ai_scenarios, rb_scenarios, posts, result>>
    /\ UNCHANGED <<parserVars, htmlVars, detVars>>

\* generate_text, lines 30-49, and lines 92-93 of _generate_with_ai
GenPost ==
    /\ gpc = "post"
    /\ posts' = posts + 1
    /\ response' = PostResult(ollama_up, ollama_reply)
    /\ gpc' = AfterGenerateText(response')
    /\ UNCHANGED <<envVars, ai_enabled, analysis_results, options, combined_analysis,
                   prompt, ai_scenarios, rb_scenarios, probes, result>>
    /\ UNCHANGED <<parserVars, htmlVars, detVars>>

\* lines 96-99 and 58-67
GenParse ==
    /\ gpc = "parse"
    /\ ai_scenarios' = ParseAiResponse(response[1])
    /\ gpc' = AfterParse(ai_scenarios')
    /\ result' = IF AfterParse(ai_scenarios') = "done"
                 THEN << ResultDict(BuildFeatureFileFromAi(ai_scenarios', combined_analysis[1]),
                                    "ai_powered", ai_scenarios', combined_analysis[1]) >>
                 ELSE <<>>
    /\ UNCHANGED <<envVars, ai_enabled, analysis_results, options, combined_analysis,
                   prompt, response, rb_scenarios, probes, posts>>
    /\ UNCHANGED <<parserVars, htmlVars, detVars>>

\* lines 69-81
GenRuleBased ==
    /\ gpc = "rule"
    /\ rb_scenarios' = GenerateRuleBasedScenarios(combined_analysis[1])
    /\ result' = << ResultDict(BuildFeatureFile(rb_scenarios', combined_analysis[1]),
                               "rule_based", rb_scenarios', combined_analysis[1]) >>
    /\ gpc' = "done"
    /\ UNCHANGED <<envVars, ai_enabled, analysis_results, options, combined_analysis,
                   prompt, response, ai_scenarios, probes, posts>>
    /\ UNCHANGED <<parserVars, htmlVars, detVars>>

GenNext ==
    \/ OllamaChange
    \/ GenStart
    \/ GenCombine
    \/ GenPrompt
    \/ GenProbe
    \/ GenPost
    \/ GenParse
    \/ GenRuleBased

----
(* The parser as a state machine *)

ParseIdle ==
    /\ ai_response = <<>>
    /\ lines = <<>>
    /\ idx = 1
    /\ scenarios = <<>>
    /\ current_scenario = <<>>
    /\ current_tags = <<>>
    /\ ppc = "idle"

ParseInit ==
    /\ ai_response \in Texts
    /\ lines = SplitOn(ai_response, "\n", <<>>)
    /\ idx = 1
    /\ scenarios = <<>>
    /\ current_scenario = <<>>
    /\ current_tags = <<>>
    /\ ppc = "loop"

ParserState == [scenarios |-> scenarios, current_scenario |-> current_scenario,
                current_tags |-> current_tags]

\* one iteration of the for loop
ParseLoop ==
    /\ ppc = "loop"
    /\ idx <= Len(lines)
    /\ LET st == ParseLine(ParserState, lines[idx])
       IN /\ scenarios' = st.scenarios
          /\ current_scenario' = st.current_scenario
          /\ current_tags' = st.current_tags
    /\ idx' = idx + 1
    /\ UNCHANGED <<ai_response, lines, ppc>>
    /\ UNCHANGED <<htmlVars, genVars, detVars>>

\* loop exhausted: flush and return
ParseReturn ==
    /\ ppc = "loop"
    /\ idx > Len(lines)
    /\ scenarios' = ParseFinish(ParserState)
    /\ ppc' = "done"
    /\ UNCHANGED <<ai_response, lines, idx, current_scenario, current_tags>>
    /\ UNCHANGED <<htmlVars, genVars, detVars>>

ParseNext == ParseLoop \/ ParseReturn

----
(* framework_detector.py: _check_file_for_framework as a state machine *)

\* self.detection_rules, lines 16-61
DetectionRules ==
    "React" :>
        [files |-> {<<"p","a","c","k","a","g","e",".","j","s","o","n">>}, dependencies |-> <<<<"r","e","a","c","t">>, <<"r","e","a","c","t","-","d","o","m">>>>,
         file_patterns |-> {<<".","j","s","x">>, <<".","t","s","x">>},
         content_patterns |-> <<<<"i","m","p","o","r","t"," ","R","e","a","c","t">>, <<"f","r","o","m"," ","\"","r","e","a","c","t","\"">>>>]
 @@ "Vue.js" :>
        [files |-> {<<"p","a","c","k","a","g","e",".","j","s","o","n">>}, dependencies |-> <<<<"v","u","e">>>>,
         file_patterns |-> {<<".","v","u","e">>},
         content_patterns |-> <<<<"<","t","e","m","p","l","a","t","e",">">>, <<"V","u","e",".","c","o","m","p","o","n","e","n","t">>>>]
 @@ "Angular" :>
        [files |-> {<<"p","a","c","k","a","g","e",".","j","s","o","n">>, <<"a","n","g","u","l","a","r",".","j","s","o","n">>}, dependencies |-> <<<<"@","a","n","g","u","l","a","r","/","c","o","r","e">>>>,
         file_patterns |-> {<<".","c","o","m","p","o","n","e","n","t",".","t","s">>},
         content_patterns |-> <<<<"@","C","o","m","p","o","n","e","n","t">>, <<"@","N","g","M","o","d","u","l","e">>>>]
 @@ "Django" :>
        [files |-> {<<"m","a","n","a","g","e",".","p","y">>, <<"s","e","t","t","i","n","g","s",".","p","y">>, <<"r","e","q","u","i","r","e","m","e","n","t","s",".","t","x","t">>},
         dependencies |-> <<<<"d","j","a","n","g","o">>>>,
         file_patterns |-> {<<".","h","t","m","l">>},
         content_patterns |-> <<<<"{","%"," ","l","o","a","d">>, <<"{","{"," ">>, <<"d","j","a","n","g","o",".">>>>]
 @@ "Flask" :>
        [files |-> {<<"a","p","p",".","p","y">>, <<"r","e","q","u","i","r","e","m","e","n","t","s",".","t","x","t">>}, dependencies |-> <<<<"f","l","a","s","k">>>>,
         content_patterns |-> <<<<"f","r","o","m"," ","f","l","a","s","k"," ","i","m","p","o","r","t">>, <<"@","a","p","p",".","r","o","u","t","e">>>>]
 @@ "Express.js" :>
        [files |-> {<<"p","a","c","k","a","g","e",".","j","s","o","n">>}, dependencies |-> <<<<"e","x","p","r","e","s","s">>>>,
         content_patterns |-> <<<<"r","e","q","u","i","r","e","(","\"","e","x","p","r","e","s","s","\"",")">>, <<"a","p","p",".","l","i","s","t","e","n","(">>>>]
 @@ "Laravel" :>
        [files |-> {<<"c","o","m","p","o","s","e","r",".","j","s","o","n">>, <<"a","r","t","i","s","a","n">>}, dependencies |-> <<<<"l","a","r","a","v","e","l","/","f","r","a","m","e","w","o","r","k">>>>,
         file_patterns |-> {<<".","b","l","a","d","e",".","p","h","p">>},
         content_patterns |-> <<<<"@","e","x","t","e","n","d","s">>, <<"@","s","e","c","t","i","o","n">>>>]
 @@ "Spring Boot" :>
        [files |-> {<<"p","o","m",".","x","m","l">>, <<"b","u","i","l","d",".","g","r","a","d","l","e">>},
         content_patterns |-> <<<<"s","p","r","i","n","g","-","b","o","o","t","-","s","t","a","r","t","e","r">>, <<"@","S","p","r","i","n","g","B","o","o","t","A","p","p","l","i","c","a","t","i","o","n">>>>]

\* the size above which _check_file_content does not read the file (line 249)
SizeLimit == 1000000

\* a variant of the guard that also skips a file of exactly the limit
TooLargeInclusive(size) == size >= SizeLimit

\* line 249: file_path.stat().st_size > 1000000
TooLarge(size) == size > SizeLimit

\* Path.suffix: the name from its last dot on, empty when the name has no
\* dot, starts with its only dot or ends with a dot
Suffix(name) ==
    LET dots == {i \in 1..Len(name) : name[i] = "."}
        last == IF dots = {} THEN 0 ELSE CHOOSE i \in dots : \A j \in dots : j <= i
    IN IF 1 < last /\ last < Len(name) THEN SubSeq(name, last, Len(name)) ELSE <<>>

\* [f(x) for x in xs if test(x)] for the evidence lists
RECURSIVE EvidenceFor(_, _, _)
EvidenceFor(kind, items, found) ==
    IF items = <<>> THEN <<>>
    ELSE (IF Head(items) \in found THEN <<[kind |-> kind, what |-> Head(items)]>> ELSE <<>>)
         \o EvidenceFor(kind, Tail(items), found)

\* _check_package_json and _check_composer_json: the keys of the dependency
\* tables of the document, nothing when the file is not JSON (lines 188-206 and 224-242)
CheckJsonDependencies(kind, file, target_deps) ==
    IF file.json = None THEN <<>>
    ELSE EvidenceFor(kind, target_deps, file.json[1])

\* _check_requirements_txt: dep.lower() in content.lower() (lines 208-222)
CheckRequirementsTxt(file, target_deps) ==
    EvidenceFor("Python dependency", target_deps,
                {target_deps[i] : i \in {j \in 1..Len(target_deps) :
                                            Contains(Lower(file.content), Lower(target_deps[j]))}})

\* _check_file_content (lines 244-263): nothing for a file above the size
\* limit, else one entry per pattern that occurs in the text
CheckFileContent(file, patterns) ==
    IF TooLarge(file.size) THEN <<>>
    ELSE EvidenceFor("Content pattern", patterns,
                     {patterns[i] : i \in {j \in 1..Len(patterns) :
                                              Contains(file.content, patterns[j])}})

\* lines 142-166: the framework file and its dependencies
FileNameEvidence(file, rules) ==
    LET file_name == Lower(file.name)
        deps == DictGet(rules, "dependencies", <<>>)
    IN IF file_name \notin DictGet(rules, "files", {}) THEN <<>>
       ELSE <<[kind |-> "Framework file", what |-> file_name]>>
            \o (IF file_name = <<"p","a","c","k","a","g","e",".","j","s","o","n">>
                THEN CheckJsonDependencies("Dependency", file, deps)
                ELSE IF file_name = <<"r","e","q","u","i","r","e","m","e","n","t","s",".","t","x","t">>
                THEN CheckRequirementsTxt(file, deps)
                ELSE IF file_name = <<"c","o","m","p","o","s","e","r",".","j","s","o","n">>
                THEN CheckJsonDependencies("PHP dependency", file, deps)
                ELSE <<>>)

\* lines 168-171
ExtensionEvidence(file, rules) ==
    LET file_ext == Lower(Suffix(file.name))
    IN IF file_ext \in DictGet(rules, "file_patterns", {})
       THEN <<[kind |-> "File pattern", what |-> file_ext]>>
       ELSE <<>>

\* the files: a name, a size in bytes, the text and, for a JSON document, the
\* keys of its dependency tables.  The size is a field of its own: the texts
\* of the model stand for the patterns a file of that size holds.
DetNames == {<<"p","a","c","k","a","g","e",".","j","s","o","n">>, <<"R","e","q","u","i","r","e","m","e","n","t","s",".","t","x","t">>, <<"A","p","p",".","J","S","X">>, <<"i","n","d","e","x",".","h","t","m","l">>, <<"x",".","c","o","m","p","o","n","e","n","t",".","t","s">>}
DetSizes == {SizeLimit - 1, SizeLimit, SizeLimit + 1}
DetContents ==
    {<<>>,
     <<"i","m","p","o","r","t"," ","R","e","a","c","t"," ","f","r","o","m"," ","\"","r","e","a","c","t","\"","\n","{","{"," ","x"," ","}","}"," ","d","j","a","n","g","o",".","d","b"," ","@","C","o","m","p","o","n","e","n","t">>,
     <<"D","j","a","n","g","o","=","=","4",".","2","\n","F","l","a","s","k","\n","f","r","o","m"," ","f","l","a","s","k"," ","i","m","p","o","r","t"," ","F","l","a","s","k">>}
DetJsons == {None, Some({<<"r","e","a","c","t">>, <<"e","x","p","r","e","s","s">>, <<"v","u","e">>})}

DetFiles ==
    {[name |-> n, size |-> sz, content |-> c, json |-> j] :
        n \in DetNames, sz \in DetSizes, c \in DetContents, j \in DetJsons}

Frameworks == DOMAIN DetectionRules

DetIdle ==
    /\ det_file = [name |-> <<>>, size |-> 0, content |-> <<>>, json |-> None]
    /\ det_framework = "React"
    /\ evidence = <<>>
    /\ detected = FALSE
    /\ dpc = "idle"

\* lines 135-139
DetInit ==
    /\ det_file \in DetFiles
    /\ det_framework \in Frameworks
    /\ evidence = <<>>
    /\ detected = FALSE
    /\ dpc = "files"

\* lines 142-166
DetCheckFiles ==
    /\ dpc = "files"
    /\ LET found == FileNameEvidence(det_file, DetectionRules[det_framework])
       IN /\ evidence' = evidence \o found
          /\ detected' = (detected \/ found # <<>>)
    /\ dpc' = "extension"
    /\ UNCHANGED <<det_file, det_framework>>
    /\ UNCHANGED <<parserVars, htmlVars, genVars>>

\* lines 168-171
DetCheckExtension ==
    /\ dpc = "extension"
    /\ LET found == ExtensionEvidence(det_file, DetectionRules[det_framework])
       IN /\ evidence' = evidence \o found
          /\ detected' = (detected \/ found # <<>>)
    /\ dpc' = "content"
    /\ UNCHANGED <<det_file, det_framework>>
    /\ UNCHANGED <<parserVars, htmlVars, genVars>>

\* lines 173-177 and the return of lines 183-186
DetCheckContent ==
    /\ dpc = "content"
    /\ LET found == CheckFileContent(det_file,
                        DictGet(DetectionRules[det_framework], "content_patterns", <<>>))
       IN /\ evidence' = evidence \o found
          /\ detected' = (detected \/ found # <<>>)
    /\ dpc' = "done"
    /\ UNCHANGED <<det_file, det_framework>>
    /\ UNCHANGED <<parserVars, htmlVars, genVars>>

DetNext == DetCheckFiles \/ DetCheckExtension \/ DetCheckContent

----
(* Specifications *)

\* _parse_ai_response on every text of Texts
InitParse == ParseInit /\ HtmlIdle /\ GenIdle /\ DetIdle
SpecParse == InitParse /\ [][ParseNext]_vars

\* analyze and the aggregation on every file of HtmlFiles
InitHtml == HtmlInit /\ ParseIdle /\ GenIdle /\ DetIdle
SpecHtml == InitHtml /\ [][HtmlNext]_vars

\* one generator, any sequence of generate() calls, the collaborator changing
\* at any moment
InitGen == GenInit /\ ParseIdle /\ HtmlIdle /\ DetIdle
SpecGen == InitGen /\ [][GenNext]_vars

\* _check_file_for_framework on every file of DetFiles and every framework
InitDetect == DetInit /\ ParseIdle /\ HtmlIdle /\ GenIdle
SpecDetect == InitDetect /\ [][DetNext]_vars

\* analyze on the documents made of whole forms and tables
InitBlocks == BlocksInit /\ ParseIdle /\ GenIdle /\ DetIdle
SpecBlocks == InitBlocks /\ [][HtmlNext]_vars

----
(* Properties of the response parser, checked under SpecParse *)

\* the text after a leading 'Scenario:' prefix, trimmed
TextAfterPrefix(line) == Strip(SubSeq(line, Len(ScenarioKw) + 1, Len(line)))

IsTagLine(raw) == StartsWith(Strip(raw), <<"@">>)
IsScenarioLine(raw) == StartsWith(Strip(raw), ScenarioKw)
IsStepRaw(raw) == IsStepLine(Strip(raw))
\* a line no rule of the parser applies to, and a blank line
IsIgnoredLine(raw) ==
    \/ Strip(raw) = <<>>
    \/ ~IsTagLine(raw) /\ ~IsScenarioLine(raw) /\ ~IsStepRaw(raw)

\* the input is one tag line, one Scenario: line, then only step lines
TagScenarioStepsShape ==
    /\ Len(lines) >= 2
    /\ IsTagLine(lines[1])
    /\ IsScenarioLine(lines[2])
    /\ \A i \in 3..Len(lines) : IsStepRaw(lines[i])

\* C1: an input made of one tag line, one Scenario: line and k step lines
\* parses to exactly one record: tags are the tokens of the tag line, the
\* title is the trimmed text after the Scenario: prefix, the steps are the k
\* step lines in input order.
C1_TagScenarioSteps ==
    (ppc = "done" /\ TagScenarioStepsShape) =>
        scenarios = << [title |-> TextAfterPrefix(Strip(lines[2])),
                        tags  |-> SplitWs(lines[1], <<>>),
                        steps |-> [i \in 1..(Len(lines) - 2) |-> Strip(lines[i + 2])]] >>

\* the indices of the Scenario: lines, and the j-th of them
ScenarioLineIdxs == {i \in 1..Len(lines) : IsScenarioLine(lines[i])}
NthScenarioLine(j) ==
    CHOOSE i \in ScenarioLineIdxs : Cardinality({k \in ScenarioLineIdxs : k <= i}) = j

\* C2: the parser returns one record per line that starts (after trimming)
\* with Scenario:, in the order of those lines, the record still open at the
\* end of the input included; no Scenario: line gives the empty sequence.
C2_OneRecordPerScenarioLine ==
    ppc = "done" =>
        /\ Len(scenarios) = Cardinality(ScenarioLineIdxs)
        /\ \A j \in 1..Len(scenarios) :
               scenarios[j].title = ScenarioTitle(Strip(lines[NthScenarioLine(j)]))
        /\ (ScenarioLineIdxs = {} => scenarios = <<>>)

C2_Witness ==
    /\ ppc = "done"
    /\ Len(scenarios) = 2
    /\ scenarios[1].title # scenarios[2].title
    /\ IsStepRaw(lines[Len(lines)])

\* C3: the parser never fails: it makes one pass over the lines, one line per
\* step, returns a sequence of records when the lines are exhausted, and a
\* line that matches no rule leaves scenarios, the open scenario and the
\* pending tags as they were.
C3_ParserTotal ==
    /\ [](/\ ppc \in {"loop", "done"}
          /\ idx \in 1..(Len(lines) + 1)
          /\ (ppc = "done" =>
                /\ idx = Len(lines) + 1
                /\ \A j \in 1..Len(scenarios) :
                       DOMAIN scenarios[j] = {"title", "tags", "steps"}))
    /\ [][ppc = "loop" =>
            IF idx <= Len(lines)
            THEN /\ idx' = idx + 1
                 /\ ppc' = "loop"
                 /\ (IsIgnoredLine(lines[idx]) =>
                        UNCHANGED <<scenarios, current_scenario, current_tags>>)
            ELSE ppc' = "done"]_vars

C3_Witness ==
    /\ ppc = "loop"
    /\ idx > 1
    /\ Strip(lines[idx - 1]) # <<>>
    /\ IsIgnoredLine(lines[idx - 1])
    /\ current_scenario # <<>>
    /\ current_tags # <<>>

----
(* Properties of generate(), checked under SpecGen *)

\* options.get('use_ai', True) of the current call
UseGenerative == "use_ai" \notin DOMAIN options \/ options.use_ai

\* the current call went into _generate_with_ai
AugmentationAttempted ==
    gpc \notin {"idle", "combine"} /\ ai_enabled /\ UseGenerative

CallEnded == gpc \in {"done", "raised"}

\* C4: when augmentation is attempted and the collaborator gives no usable
\* result, generate() returns the rule-based result and raises nothing.
C4_FallbackOnUnusable ==
    (CallEnded /\ AugmentationAttempted /\ ai_scenarios = <<>>) =>
        /\ gpc = "done"
        /\ result[1].generation_method = "rule_based"
        /\ result[1].scenarios_count = Len(rb_scenarios)
        /\ rb_scenarios # <<>>

\* C5: no condition is fatal: generate() returns a result for every batch of
\* catalogs of the analyzer, forms without action included, and never raises.
C5_NeverRaises == gpc # "raised"

\* C6: a prompt is sent only if the use_ai option is true and the collaborator
\* has reported available; with the option false the call makes no probe and
\* no completion request and its result is the rule-based one.
C6_PromptOnlyWhenEnabled ==
    /\ [](posts > 0 => (UseGenerative /\ ai_enabled /\ probes > 0))
    /\ [][posts' > posts => (gpc = "post" /\ UseGenerative /\ ai_enabled)]_vars
    /\ [][(gpc' = "post" /\ gpc # "post") => (gpc = "probe" /\ ollama_up)]_vars
    /\ [](~UseGenerative =>
             /\ probes = 0
             /\ posts = 0
             /\ gpc # "raised"
             /\ (gpc = "done" => result[1].generation_method = "rule_based"))

C6_Witness ==
    /\ gpc = "done"
    /\ ~UseGenerative
    /\ ai_enabled
    /\ ollama_up
    /\ ollama_reply.kind = "ok"
    /\ ParseAiResponse(ollama_reply.text) # <<>>
    /\ result[1].generation_method = "rule_based"

\* C7: within one call the completion request is issued at most once; after
\* an absent response, a failed request or a response that parses to no
\* scenario the call goes straight to the rule-based path, without a retry.
C7_AtMostOneCompletion ==
    /\ [](posts <= 1)
    /\ [][(gpc = "post" /\ gpc' # "post" /\ (response' = None \/ response'[1] = <<>>))
             => gpc' = "rule"]_vars
    /\ [][(gpc = "parse" /\ gpc' # "parse" /\ ai_scenarios' = <<>>) => gpc' = "rule"]_vars
    /\ [][(gpc = "rule" /\ gpc' # "rule") =>
             /\ gpc' = "done"
             /\ posts' = posts
             /\ probes' = probes
             /\ result'[1].generation_method = "rule_based"]_vars

C7_Witness ==
    /\ gpc = "done"
    /\ posts = 1
    /\ response # None
    /\ response[1] # <<>>
    /\ ai_scenarios = <<>>
    /\ result[1].generation_method = "rule_based"

\* C8: rule-based synthesis returns exactly the authentication scenario
\* followed by the page-load scenario when has_authentication is set and
\* exactly the page-load scenario otherwise, the same titles, tags and steps
\* whatever the rest of the combined view is.
C8_RuleBasedDeterministic ==
    (gpc = "done" /\ result[1].generation_method = "rule_based") =>
        LET page == rb_scenarios[Len(rb_scenarios)] IN
        /\ Len(rb_scenarios) = IF combined_analysis[1].has_authentication THEN 2 ELSE 1
        /\ result[1].scenarios_count = Len(rb_scenarios)
        /\ page.title = <<"P","a","g","e"," ","L","o","a","d"," ","a","n","d"," ","B","a","s","i","c"," ","F","u","n","c","t","i","o","n","a","l","i","t","y">>
        /\ page.tags = << <<"@","s","m","o","k","e">>, <<"@","u","i">>, <<"@","a","u","t","o","m","a","t","i","o","n">> >>
        /\ Len(page.steps) = 4
        /\ page = PageLoadScenario
        /\ combined_analysis[1].has_authentication =>
              /\ rb_scenarios[1].title = <<"U","s","e","r"," ","A","u","t","h","e","n","t","i","c","a","t","i","o","n"," ","w","i","t","h"," ","V","a","l","i","d"," ","C","r","e","d","e","n","t","i","a","l","s">>
              /\ rb_scenarios[1].tags = << <<"@","s","m","o","k","e">>, <<"@","a","u","t","h","e","n","t","i","c","a","t","i","o","n">>, <<"@","a","u","t","o","m","a","t","i","o","n">> >>
              /\ Len(rb_scenarios[1].steps) = 5
              /\ rb_scenarios[1] = AuthenticationScenario

C8_Witness ==
    /\ gpc = "done"
    /\ result[1].generation_method = "rule_based"
    /\ combined_analysis[1].has_authentication
    /\ combined_analysis[1].has_forms
    /\ Len(rb_scenarios) = 2

\* the keywords as the claim lists them
AuthKeywords == {<<"l","o","g","i","n">>, <<"p","a","s","s","w","o","r","d">>, <<"u","s","e","r","n","a","m","e">>, <<"e","m","a","i","l">>, <<"s","i","g","n","i","n">>, <<"a","u","t","h">>}

\* some attribute value of the input contains a keyword, whatever the case
ValueHasKeyword(v) == \E kw \in AuthKeywords : Contains(Lower(v), kw)
InputHasKeyword(inp) ==
    \/ ValueHasKeyword(inp.type)
    \/ \E f \in {"name", "id", "placeholder", "value"} :
          inp[f] # None /\ ValueHasKeyword(inp[f][1])

\* some form of some catalog of the batch has a nested input with a keyword
BatchHasAuthInput(batch) ==
    \E c \in 1..Len(batch) :
        /\ "forms" \in DOMAIN batch[c].elements
        /\ \E i \in 1..Len(batch[c].elements.forms) :
              \E j \in 1..Len(batch[c].elements.forms[i].inputs) :
                  InputHasKeyword(batch[c].elements.forms[i].inputs[j])

\* C9: has_authentication is true exactly when some form of some catalog of
\* the batch has a nested input one of whose attribute values contains one of
\* the keywords as a case-insensitive substring; inputs outside every form do
\* not set it, and a later catalog does not reset it.
C9_HasAuthentication ==
    combined_analysis # <<>> =>
        (combined_analysis[1].has_authentication <=> BatchHasAuthInput(analysis_results))

C9_Witness ==
    /\ combined_analysis # <<>>
    /\ Len(analysis_results) = 2
    /\ BatchHasAuthInput(<<analysis_results[1]>>)
    /\ ~BatchHasAuthInput(<<analysis_results[2]>>)
    /\ analysis_results[2].elements # EmptyDict
    /\ analysis_results[2].elements.inputs # <<>>
    /\ combined_analysis[1].has_authentication

----
(* Properties of the extraction, checked under SpecHtml *)

PasswordInput ==
    [type |-> <<"p","a","s","s","w","o","r","d">>, name |-> Some(<<"p","w","d">>), id |-> None, placeholder |-> None,
     value |-> None, required |-> FALSE]

\* C10: the document <form action="/login" method="POST"><input type="password"
\* name="pwd"></form> gives a catalog with exactly one form (method POST,
\* action /login, the input nested in it) and exactly one input (type
\* password, name pwd, not required), and the view built from that catalog
\* alone has has_authentication set.
C10_LoginDocument ==
    (html_file.readable /\ html_file.content = LoginDocument) =>
        /\ hpc \in {"analyzed", "combined"} =>
              /\ Len(catalog[1].elements.forms) = 1
              /\ catalog[1].elements.forms[1].method = <<"P","O","S","T">>
              /\ catalog[1].elements.forms[1].action = Some(<<"/","l","o","g","i","n">>)
              /\ catalog[1].elements.forms[1].inputs = <<PasswordInput>>
              /\ catalog[1].elements.inputs = <<PasswordInput>>
              /\ catalog[1].summary.total_forms = 1
              /\ catalog[1].summary.total_inputs = 1
        /\ hpc = "combined" => view[1].has_authentication

C10_Witness ==
    /\ hpc = "combined"
    /\ html_file.readable
    /\ html_file.content = LoginDocument
    /\ view[1].has_authentication
    /\ Len(view[1].all_elements.forms) = 1

\* the kinds of a catalog and the key of each kind in its summary
\* (html_analyzer.py lines 33-43 and 302-312)
ElementKinds ==
    {"ids", "classes", "names", "data_attributes", "forms", "inputs", "buttons",
     "links", "headings", "images", "tables"}

SummaryKeyOf ==
    [ids |-> "total_ids", classes |-> "total_classes", names |-> "total_names",
     data_attributes |-> "total_data_attributes", forms |-> "total_forms",
     inputs |-> "total_inputs", buttons |-> "total_buttons", links |-> "total_links",
     headings |-> "total_headings", images |-> "total_images", tables |-> "total_tables"]

\* cardinality for the kinds a catalog holds as sets, length for the lists
CountOf(elements, kind) ==
    IF kind \in SetKeys THEN Cardinality(elements[kind]) ELSE Len(elements[kind])

Analyzed == hpc \in {"analyzed", "reanalyzed", "combined"}

\* C11: for every document, the unreadable ones with their error catalog
\* included, the catalog analyze returns has, for every kind, a summary count
\* equal to the number of elements of that kind (cardinality for ids and
\* classes).
C11_SummaryCounts ==
    Analyzed =>
        \A kind \in ElementKinds :
            /\ kind \in DOMAIN catalog[1].elements
            /\ SummaryKeyOf[kind] \in DOMAIN catalog[1].summary
            /\ catalog[1].summary[SummaryKeyOf[kind]] = CountOf(catalog[1].elements, kind)

\* the part of C11 the code keeps: the counts of a document that was read
C11_ReadableCounts ==
    (Analyzed /\ html_file.readable) =>
        \A kind \in ElementKinds :
            catalog[1].summary[SummaryKeyOf[kind]] = CountOf(catalog[1].elements, kind)

\* C13: analyze returns for every file, and for a file that cannot be read the
\* catalog has an error field, the path of the file, and an empty element
\* list for every kind.
C13_ErrorCatalog ==
    (Analyzed /\ ~html_file.readable) =>
          /\ "error" \in DOMAIN catalog[1]
          /\ catalog[1].file_path = html_file.path
          /\ \A kind \in ElementKinds :
                /\ kind \in DOMAIN catalog[1].elements
                /\ CountOf(catalog[1].elements, kind) = 0

\* the part of C13 the code keeps: a catalog with the error field and the
\* path, holding no element of any kind
C13_ErrorCatalogHoldsNothing ==
    (Analyzed /\ ~html_file.readable) =>
          /\ "error" \in DOMAIN catalog[1]
          /\ catalog[1].file_path = html_file.path
          /\ DOMAIN catalog[1].elements = {}
          /\ DOMAIN catalog[1].summary = {}

\* the kinds that are ordered lists: every kind but ids and classes
OrderedKinds == ElementKinds \ SetKeys

\* C15: two extractions of the same document text give catalogs with the same
\* summary, the same set of ids, the same set of classes, and every list
\* kind equal element for element in the same order.
C15_Idempotent ==
    (hpc = "reanalyzed" /\ html_file.readable) =>
        /\ catalog_again[1].summary = catalog[1].summary
        /\ catalog_again[1].elements.ids = catalog[1].elements.ids
        /\ catalog_again[1].elements.classes = catalog[1].elements.classes
        /\ \A kind \in OrderedKinds :
              catalog_again[1].elements[kind] = catalog[1].elements[kind]

\* the part of C15 the code keeps: everything but the order of the names
C15_IdempotentButNames ==
    (hpc = "reanalyzed" /\ html_file.readable) =>
        /\ catalog_again[1].summary = catalog[1].summary
        /\ catalog_again[1].elements.ids = catalog[1].elements.ids
        /\ catalog_again[1].elements.classes = catalog[1].elements.classes
        /\ ToSet(catalog_again[1].elements.names) = ToSet(catalog[1].elements.names)
        /\ \A kind \in OrderedKinds \ {"names"} :
              catalog_again[1].elements[kind] = catalog[1].elements[kind]

----
(* Properties of the aggregation, checked under SpecGen *)

\* the elements of one kind in a catalog ([] or {} when the catalog has none)
ElementsOf(cat, kind) ==
    DictGet(cat.elements, kind, IF kind \in SetKeys THEN {} ELSE <<>>)

RECURSIVE SumOfCounts(_, _)
SumOfCounts(batch, kind) ==
    IF batch = <<>> THEN 0
    ELSE (IF kind \in SetKeys THEN Cardinality(ElementsOf(Head(batch), kind))
                              ELSE Len(ElementsOf(Head(batch), kind)))
         + SumOfCounts(Tail(batch), kind)

\* no identifier (class) occurs in two catalogs of the batch
NoCrossDuplicate(batch, kind) ==
    \A i, j \in 1..Len(batch) :
        i < j => ElementsOf(batch[i], kind) \cap ElementsOf(batch[j], kind) = {}

\* C12: in the combined view of a batch every list kind has the sum of the
\* per-catalog lengths, total_forms, total_buttons and total_links of the
\* summary are those sums, and the id set and the class set have at most the
\* sum of the per-catalog cardinalities, with equality exactly when no id
\* (class) occurs in two catalogs.
C12_CombinedCounts ==
    combined_analysis # <<>> =>
        LET c == combined_analysis[1] IN
        /\ \A kind \in ListKeys :
              Len(c.all_elements[kind]) = SumOfCounts(analysis_results, kind)
        /\ c.summary.total_forms = SumOfCounts(analysis_results, "forms")
        /\ c.summary.total_buttons = SumOfCounts(analysis_results, "buttons")
        /\ c.summary.total_links = SumOfCounts(analysis_results, "links")
        /\ \A kind \in SetKeys :
              /\ Cardinality(c.all_elements[kind]) <= SumOfCounts(analysis_results, kind)
              /\ (Cardinality(c.all_elements[kind]) = SumOfCounts(analysis_results, kind))
                    <=> NoCrossDuplicate(analysis_results, kind)

\* two catalogs with a button each and the same id and classes
C12_Witness ==
    /\ combined_analysis # <<>>
    /\ Len(analysis_results) = 2
    /\ combined_analysis[1].summary.total_buttons = 2
    /\ combined_analysis[1].summary.total_forms = SumOfCounts(analysis_results, "forms")
    /\ Cardinality(combined_analysis[1].all_elements.ids) = 1
    /\ SumOfCounts(analysis_results, "ids") = 2
    /\ ~NoCrossDuplicate(analysis_results, "classes")

IsErrorCatalog(cat) == "error" \in DOMAIN cat
IsValidCatalog(cat) == ~IsErrorCatalog(cat)

\* a batch with error-flagged catalogs among valid ones
MixedBatch(batch) ==
    /\ \E i \in 1..Len(batch) : IsErrorCatalog(batch[i])
    /\ \E i \in 1..Len(batch) : IsValidCatalog(batch[i])

\* C14: for a batch with error-flagged catalogs among valid ones generate()
\* does not abort, and the combined view (element lists, derived booleans,
\* frameworks, summary counts with the file count) is the combined view of
\* the batch without its error-flagged catalogs.
C14_ErrorCatalogsIgnored ==
    MixedBatch(analysis_results) =>
        /\ gpc # "raised"
        /\ combined_analysis # <<>> =>
              LET without == CombineAnalysisResults(SelectSeq(analysis_results, IsValidCatalog))
                  c == combined_analysis[1]
              IN /\ c.all_elements = without.all_elements
                 /\ c.has_forms = without.has_forms
                 /\ c.has_navigation = without.has_navigation
                 /\ c.has_authentication = without.has_authentication
                 /\ c.frameworks = without.frameworks
                 /\ c.summary = without.summary

\* what the code keeps of C14: but for the file count, the combined view is
\* the one of the valid catalogs
C14_ErrorCatalogsCountAsFiles ==
    (MixedBatch(analysis_results) /\ combined_analysis # <<>>) =>
        LET without == CombineAnalysisResults(SelectSeq(analysis_results, IsValidCatalog))
            c == combined_analysis[1]
        IN /\ c.all_elements = without.all_elements
           /\ c.has_forms = without.has_forms
           /\ c.has_navigation = without.has_navigation
           /\ c.has_authentication = without.has_authentication
           /\ c.frameworks = without.frameworks
           /\ c.summary = [without.summary EXCEPT !.total_files = Len(analysis_results)]
           /\ c.summary.total_files > without.summary.total_files

----
(* Properties of the rendered document and of the result of generate(),
   checked under SpecGen *)

\* text.split(sep), by the positions of the separators
RECURSIVE FieldsAfter(_, _, _)
FieldsAfter(text, at, start) ==
    IF at = {} THEN <<SubSeq(text, start, Len(text))>>
    ELSE LET first == CHOOSE i \in at : \A j \in at : i <= j
         IN <<SubSeq(text, start, first - 1)>> \o FieldsAfter(text, at \ {first}, first + 1)

FieldsOf(text, sep) == FieldsAfter(text, {i \in 1..Len(text) : text[i] = sep}, 1)

\* the lines of the rendered document
RenderedLines == FieldsOf(result[1].content, "\n")

\* the scenarios generate() rendered: the parsed ones or the local ones
RenderedScenarios ==
    IF result[1].generation_method = "ai_powered" THEN ai_scenarios ELSE rb_scenarios

\* ls from position pos on holds, for each scenario of scs in order, a tag
\* line (the tags joined by one space) only if the scenario has tags, the
\* Scenario: line with the title, the steps in order indented by 4 spaces and
\* a blank line: the position after the last block, or 0 if ls does not
\* have that shape
RECURSIVE BlocksEnd(_, _, _)
BlocksEnd(ls, pos, scs) ==
    IF scs = <<>> THEN pos
    ELSE LET sc == Head(scs)
             at == IF sc.tags # <<>> THEN pos + 1 ELSE pos
             n == Len(sc.steps)
         IN IF /\ at + n + 1 <= Len(ls)
               /\ sc.tags # <<>> => LStrip(ls[pos]) = Join(sc.tags, <<" ">>)
               /\ LStrip(ls[at]) = <<"S","c","e","n","a","r","i","o",":"," ">> \o sc.title
               /\ \A i \in 1..n : ls[at + i] = <<" "," "," "," ">> \o sc.steps[i]
               /\ ls[at + n + 1] = <<>>
            THEN BlocksEnd(ls, at + n + 2, Tail(scs))
            ELSE 0

\* C16: for either method the rendered document is the Feature: line, three
\* fixed rationale lines, a blank line, Background: with its two fixed lines,
\* a blank line, then for each scenario in order an optional tag line, the
\* Scenario: line, the steps indented by 4 spaces and a blank line, and
\* after that only lines that start with #.
C16_RenderedLayout ==
    result # <<>> =>
        LET ls == RenderedLines
            end == BlocksEnd(ls, 10, RenderedScenarios)
        IN /\ Len(ls) >= 9
           /\ StartsWith(ls[1], <<"F","e","a","t","u","r","e",":"," ">>)
           /\ ls[2] = <<" "," ","A","s"," ","a"," ","q","u","a","l","i","t","y"," ","a","s","s","u","r","a","n","c","e"," ","e","n","g","i","n","e","e","r">>
           /\ ls[3] = <<" "," ","I"," ","w","a","n","t"," ","t","o"," ","t","e","s","t"," ","a","l","l"," ","a","s","p","e","c","t","s"," ","o","f"," ","t","h","e"," ","w","e","b"," ","a","p","p","l","i","c","a","t","i","o","n">>
           /\ ls[4] = <<" "," ","S","o"," ","t","h","a","t"," ","I"," ","c","a","n"," ","e","n","s","u","r","e"," ","q","u","a","l","i","t","y"," ","a","n","d"," ","r","e","l","i","a","b","i","l","i","t","y">>
           /\ ls[5] = <<>>
           /\ ls[6] = <<" "," ","B","a","c","k","g","r","o","u","n","d",":">>
           /\ ls[7] = <<" "," "," "," ","G","i","v","e","n"," ","t","h","e"," ","w","e","b"," ","a","p","p","l","i","c","a","t","i","o","n"," ","i","s"," ","r","u","n","n","i","n","g"," ","a","n","d"," ","a","c","c","e","s","s","i","b","l","e">>
           /\ ls[8] = <<" "," "," "," ","A","n","d"," ","I"," ","h","a","v","e"," ","a"," ","c","l","e","a","n"," ","b","r","o","w","s","e","r"," ","s","e","s","s","i","o","n">>
           /\ ls[9] = <<>>
           /\ end > 0
           /\ end <= Len(ls)
           /\ \A i \in end..Len(ls) : StartsWith(ls[i], <<"#">>)

\* a generative document of two scenarios, the first without tags and the
\* second with tags
C16_Witness ==
    /\ result # <<>>
    /\ result[1].generation_method = "ai_powered"
    /\ Len(ai_scenarios) = 2
    /\ ai_scenarios[1].tags = <<>>
    /\ ai_scenarios[1].steps # <<>>
    /\ ai_scenarios[2].tags # <<>>
    /\ BlocksEnd(RenderedLines, 10, ai_scenarios) > 10

\* the lines of the trailing comment block
TrailingBlock == SelectSeq(RenderedLines, LAMBDA l : StartsWith(l, <<"#">>))

BlockSays(text) == \E i \in 1..Len(TrailingBlock) : Contains(TrailingBlock[i], text)

\* the block records the three counts of the summary of the combined view
BlockHasSummaryCounts ==
    /\ BlockSays(<<"F","i","l","e","s"," ","a","n","a","l","y","z","e","d",":"," ">> \o IntStr(combined_analysis[1].summary.total_files))
    /\ BlockSays(<<"F","o","r","m","s"," ","f","o","u","n","d",":"," ">> \o IntStr(combined_analysis[1].summary.total_forms))
    /\ BlockSays(<<"A","u","t","h","e","n","t","i","c","a","t","i","o","n"," ","f","l","o","w",":"," ">>
                 \o ReprBool(combined_analysis[1].summary.has_authentication_flow))

\* C17: for both methods the trailing comment block records the method and
\* the summary counts of the combined view (files analysed, forms found,
\* authentication flow), and the model when the method is the generative one.
C17_TrailingBlock ==
    result # <<>> =>
        /\ result[1].generation_method = "ai_powered" =>
              BlockSays(<<"u","s","i","n","g"," ","A","I">>) /\ BlockSays(<<"A","I"," ","M","o","d","e","l",":"," ">> \o ModelName)
        /\ result[1].generation_method = "rule_based" => BlockSays(<<"(","r","u","l","e","-","b","a","s","e","d",")">>)
        /\ BlockHasSummaryCounts

\* what the code keeps of C17: the generative block has the method, the model
\* and the counts; the rule-based block has the method and the timestamp only
C17_CountsOnlyWhenGenerative ==
    result # <<>> =>
        /\ result[1].generation_method = "ai_powered" =>
              /\ BlockSays(<<"u","s","i","n","g"," ","A","I">>) /\ BlockSays(<<"A","I"," ","M","o","d","e","l",":"," ">> \o ModelName)
              /\ BlockHasSummaryCounts
        /\ result[1].generation_method = "rule_based" =>
              /\ BlockSays(<<"(","r","u","l","e","-","b","a","s","e","d",")">>)
              /\ Len(TrailingBlock) = 2
              /\ ~BlockSays(<<"F","i","l","e","s"," ","a","n","a","l","y","z","e","d">>)
              /\ ~BlockSays(<<"F","o","r","m","s"," ","f","o","u","n","d">>)
              /\ ~BlockSays(<<"A","u","t","h","e","n","t","i","c","a","t","i","o","n"," ","f","l","o","w">>)

\* the number of Scenario: blocks in the rendered document
ScenarioCountOf(ls) ==
    Len(SelectSeq(ls, LAMBDA l : StartsWith(LStrip(l), <<"S","c","e","n","a","r","i","o",":">>)))

RenderedScenarioCount == ScenarioCountOf(RenderedLines)

\* the collaborator's response of this call parsed to at least one record
ParsedFromResponse ==
    IF posts = 1 /\ response # None THEN ParseAiResponse(response[1]) ELSE <<>>

\* C19: in every result the scenario count is the number of Scenario: blocks
\* of the content; the method is the generative one exactly when the rendered
\* scenarios are the records parsed from the collaborator's response, at
\* least one then, and the rule-based one otherwise; the summary is the
\* summary of the combined view.
C19_ResultMetadata ==
    result # <<>> =>
        LET ls == RenderedLines IN
        /\ result[1].scenarios_count = ScenarioCountOf(ls)
        /\ result[1].scenarios_count = Len(RenderedScenarios)
        /\ result[1].generation_method \in {"ai_powered", "rule_based"}
        /\ result[1].generation_method = "ai_powered" <=> ParsedFromResponse # <<>>
        /\ result[1].generation_method = "ai_powered" =>
              /\ result[1].scenarios_count >= 1
              /\ BlocksEnd(ls, 10, ParsedFromResponse) > 0
        /\ result[1].generation_method = "rule_based" =>
              BlocksEnd(ls, 10,
                        GenerateRuleBasedScenarios(combined_analysis[1])) > 0
        /\ result[1].analysis_summary = combined_analysis[1].summary
        /\ result[1].analysis_summary = CombinedSummary(CombineFold(CombinedEmpty, analysis_results))

\* a generative result of two scenarios after a rule-based one is possible;
\* here: a generative result whose count is 2
C19_Witness ==
    /\ result # <<>>
    /\ result[1].generation_method = "ai_powered"
    /\ result[1].scenarios_count = 2
    /\ RenderedScenarioCount = 2
    /\ result[1].analysis_summary.total_files = 2

----
(* The pending tags of the response parser, checked under SpecParse *)

\* the tokens of the last tag line among lines[from..to], none when there is
\* no tag line there
TagsPendingIn(from, to) ==
    LET tagLines == {i \in from..to : IsTagLine(lines[i])}
    IN IF tagLines = {} THEN <<>>
       ELSE SplitWs(Strip(lines[CHOOSE i \in tagLines : \A k \in tagLines : k <= i]), <<>>)

\* the index of the last Scenario: line before position i, 0 when there is none
LastScenarioLineBefore(i) ==
    LET before == {k \in ScenarioLineIdxs : k < i}
    IN IF before = {} THEN 0 ELSE CHOOSE k \in before : \A m \in before : m <= k

\* C20: the tags of each record are the tokens of the most recent tag line
\* between the previous Scenario: line (or the start of the input) and the
\* record's own Scenario: line, and empty when there is none; a later tag
\* line overwrites an earlier pending one and a Scenario: line clears the
\* pending tags.
C20_TagsOfMostRecentTagLine ==
    /\ ppc = "done" =>
          /\ Len(scenarios) = Cardinality(ScenarioLineIdxs)
          /\ \A j \in 1..Len(scenarios) :
                scenarios[j].tags =
                    TagsPendingIn(LastScenarioLineBefore(NthScenarioLine(j)) + 1,
                                  NthScenarioLine(j) - 1)
    /\ ppc = "loop" =>
          /\ current_tags = TagsPendingIn(LastScenarioLineBefore(idx) + 1, idx - 1)
          /\ current_scenario # <<>> =>
                current_scenario[1].tags =
                    TagsPendingIn(LastScenarioLineBefore(LastScenarioLineBefore(idx)) + 1,
                                  LastScenarioLineBefore(idx) - 1)

\* two different tag lines, then a scenario that takes the second, then a
\* scenario without tags
C20_Witness ==
    /\ ppc = "done"
    /\ Len(lines) = 4
    /\ IsTagLine(lines[1])
    /\ IsTagLine(lines[2])
    /\ SplitWs(Strip(lines[1]), <<>>) # SplitWs(Strip(lines[2]), <<>>)
    /\ IsScenarioLine(lines[3])
    /\ IsScenarioLine(lines[4])
    /\ Len(scenarios) = 2
    /\ scenarios[1].tags = SplitWs(Strip(lines[2]), <<>>)
    /\ scenarios[1].tags # <<>>
    /\ scenarios[2].tags = <<>>

----
(* The size guard of the framework detector, checked under SpecDetect *)

ContentEvidence == SelectSeq(evidence, LAMBDA e : e.kind = "Content pattern")

HasEvidence(kind, what) ==
    \E i \in 1..Len(evidence) : evidence[i] = [kind |-> kind, what |-> what]

RulesInForce == DetectionRules[det_framework]

\* C18: for a file of more than 1,000,000 bytes the content scan is skipped
\* and gives no content-pattern evidence for any framework, while the file
\* name, dependency and extension phases run as for any file and can mark the
\* framework detected; a file of exactly 1,000,000 bytes (or less) is scanned:
\* every pattern of the framework that occurs in its text is in the evidence.
C18_SizeGuard ==
    dpc = "done" =>
        LET rules == RulesInForce
            patterns == DictGet(rules, "content_patterns", <<>>)
            deps == DictGet(rules, "dependencies", <<>>)
            file_name == Lower(det_file.name)
            named == file_name \in DictGet(rules, "files", {})
            by_ext == Lower(Suffix(det_file.name)) \in DictGet(rules, "file_patterns", {})
        IN /\ det_file.size > 1000000 => ContentEvidence = <<>>
           /\ det_file.size <= 1000000 =>
                 \A i \in 1..Len(patterns) :
                     Contains(det_file.content, patterns[i])
                        <=> HasEvidence("Content pattern", patterns[i])
           /\ named <=> HasEvidence("Framework file", file_name)
           /\ by_ext <=> HasEvidence("File pattern", Lower(Suffix(det_file.name)))
           /\ \A i \in 1..Len(deps) :
                 /\ HasEvidence("Dependency", deps[i]) <=>
                       /\ named /\ file_name = <<"p","a","c","k","a","g","e",".","j","s","o","n">>
                       /\ det_file.json # None /\ deps[i] \in det_file.json[1]
                 /\ HasEvidence("Python dependency", deps[i]) <=>
                       /\ named /\ file_name = <<"r","e","q","u","i","r","e","m","e","n","t","s",".","t","x","t">>
                       /\ Contains(Lower(det_file.content), Lower(deps[i]))
           /\ (named \/ by_ext) => detected
           /\ detected <=> evidence # <<>>

\* a package.json of 1,000,001 bytes whose text holds a React pattern: React is
\* detected by the file name and the dependency, with no content evidence
C18_Witness ==
    /\ dpc = "done"
    /\ det_file.size = 1000001
    /\ det_framework = "React"
    /\ Contains(det_file.content, <<"i","m","p","o","r","t"," ","R","e","a","c","t">>)
    /\ ContentEvidence = <<>>
    /\ HasEvidence("Framework file", <<"p","a","c","k","a","g","e",".","j","s","o","n">>)
    /\ HasEvidence("Dependency", <<"r","e","a","c","t">>)
    /\ detected

----
(* The steps of the records of the response parser, checked under SpecParse *)

\* the trimmed step lines among lines[from..to], in input order
RECURSIVE StepsIn(_, _)
StepsIn(from, to) ==
    IF from > to THEN <<>>
    ELSE (IF IsStepRaw(lines[from]) THEN <<Strip(lines[from])>> ELSE <<>>)
         \o StepsIn(from + 1, to)

\* the index of the first Scenario: line after position i, one past the end
\* of the input when there is none
NextScenarioLineAfter(i) ==
    LET after == {k \in ScenarioLineIdxs : k > i}
    IN IF after = {} THEN Len(lines) + 1 ELSE CHOOSE k \in after : \A m \in after : k <= m

\* C21: a tag line met while a scenario is open neither closes nor retags
\* it; the steps of each record are the step lines between its Scenario:
\* line and the next Scenario: line (or the end of the input), in input
\* order, tag lines in between notwithstanding; step lines before the first
\* Scenario: line are in no record.
C21_StepsOfOpenScenario ==
    /\ [](/\ ppc = "done" =>
                /\ Len(scenarios) = Cardinality(ScenarioLineIdxs)
                /\ \A j \in 1..Len(scenarios) :
                      scenarios[j].steps =
                          StepsIn(NthScenarioLine(j) + 1,
                                  NextScenarioLineAfter(NthScenarioLine(j)) - 1)
          /\ (ppc = "loop" /\ LastScenarioLineBefore(idx) = 0) =>
                (scenarios = <<>> /\ current_scenario = <<>>)
          /\ (ppc = "loop" /\ LastScenarioLineBefore(idx) > 0) =>
                /\ current_scenario # <<>>
                /\ current_scenario[1].steps =
                       StepsIn(LastScenarioLineBefore(idx) + 1, idx - 1))
    /\ [][(ppc = "loop" /\ idx <= Len(lines) /\ IsTagLine(lines[idx])) =>
             UNCHANGED <<scenarios, current_scenario>>]_vars

\* a step line before any scenario, then a scenario, a tag line and a step
\* line: the record holds the second step line only
C21_Witness ==
    /\ ppc = "done"
    /\ Len(lines) = 4
    /\ IsStepRaw(lines[1])
    /\ IsScenarioLine(lines[2])
    /\ IsTagLine(lines[3])
    /\ IsStepRaw(lines[4])
    /\ Len(scenarios) = 1
    /\ scenarios[1].tags = <<>>
    /\ scenarios[1].steps = <<Strip(lines[4])>>

----
(* The data-model invariant of the scenario records, checked under SpecParse *)

TagsBeginWithAt(scenario) ==
    \A t \in 1..Len(scenario.tags) : StartsWith(scenario.tags[t], <<"@">>)

StepsBeginWithKeyword(scenario) ==
    \A k \in 1..Len(scenario.steps) : IsStepLine(scenario.steps[k])

RuleTemplates == {AuthenticationScenario, PageLoadScenario}

\* C22: every record the response parser returns, and every record of the
\* rule templates, has tags that each begin with @ and steps that each begin
\* with one of Given, When, Then, And, But.
C22_RecordInvariant ==
    /\ \A sc \in RuleTemplates : TagsBeginWithAt(sc) /\ StepsBeginWithKeyword(sc)
    /\ ppc = "done" =>
          \A j \in 1..Len(scenarios) :
              TagsBeginWithAt(scenarios[j]) /\ StepsBeginWithKeyword(scenarios[j])

\* what does hold: the templates satisfy both parts, the parser's records
\* satisfy the part about steps, and their first tag begins with @
C22_StepsAndFirstTag ==
    /\ \A sc \in RuleTemplates : TagsBeginWithAt(sc) /\ StepsBeginWithKeyword(sc)
    /\ ppc = "done" =>
          \A j \in 1..Len(scenarios) :
              /\ StepsBeginWithKeyword(scenarios[j])
              /\ scenarios[j].tags # <<>> => StartsWith(scenarios[j].tags[1], <<"@">>)

----
(* The titles of the records of the response parser, checked under SpecParse *)

\* C23: the title of the record a Scenario: line opens is exactly the rest
\* of that line after the leading Scenario: prefix, trimmed.
C23_TitleIsRemainder ==
    ppc = "done" =>
        /\ Len(scenarios) = Cardinality(ScenarioLineIdxs)
        /\ \A j \in 1..Len(scenarios) :
               scenarios[j].title = TextAfterPrefix(Strip(lines[NthScenarioLine(j)]))

\* what does hold: the title is that remainder whenever the remainder does
\* not itself contain 'Scenario:'
C23_TitleWhenPrefixOccursOnce ==
    ppc = "done" =>
        /\ Len(scenarios) = Cardinality(ScenarioLineIdxs)
        /\ \A j \in 1..Len(scenarios) :
               LET rest == TextAfterPrefix(Strip(lines[NthScenarioLine(j)]))
               IN ~Contains(rest, ScenarioKw) => scenarios[j].title = rest

----
(* The order of the list kinds of a catalog, checked under SpecHtml *)

\* where the matches of PairedTags begin: the start positions of the
\* elements re.findall reports, in the order it reports them
RECURSIVE PairedStartsFrom(_, _, _, _, _)
PairedStartsFrom(s, low, from, open, close) ==
    LET p == FindFrom(low, from, open) IN
    IF p = 0 THEN <<>>
    ELSE LET g == FindCharFrom(s, p + Len(open), {">"}) IN
         IF g = 0 THEN <<>>
         ELSE LET e == FindFrom(low, g + 1, close) IN
              IF e = 0 THEN <<>>
              ELSE <<p>> \o PairedStartsFrom(s, low, e + Len(close), open, close)

PairedStarts(s, open, close) == PairedStartsFrom(s, Lower(s), 1, open, close)

\* where the matches of OpenTags begin, each with its attribute text
RECURSIVE OpenStartsFrom(_, _, _, _)
OpenStartsFrom(s, low, from, open) ==
    LET p == FindFrom(low, from, open) IN
    IF p = 0 THEN <<>>
    ELSE LET g == FindCharFrom(s, p + Len(open), {">"}) IN
         IF g = 0 THEN <<>>
         ELSE << [start |-> p, attrs |-> SubSeq(s, p + Len(open), g - 1)] >>
              \o OpenStartsFrom(s, low, g + 1, open)

StartIsOfButtonInput(m) == HasButtonType(m.attrs)

\* where the element of each record of the buttons list begins, in the order
\* of the list: the <button> elements, then the button-typed inputs
ButtonElementStarts(content) ==
    PairedStarts(content, <<"<","b","u","t","t","o","n">>, <<"<","/","b","u","t","t","o","n",">">>)
    \o LET ms == SelectSeq(OpenStartsFrom(content, Lower(content), 1, <<"<","i","n","p","u","t">>),
                           StartIsOfButtonInput)
       IN [i \in 1..Len(ms) |-> ms[i].start]

\* the same for the headings list: level by level, h1 first
HeadingStartsOfLevel(content, level) ==
    PairedStarts(content, <<"<","h">> \o IntStr(level), <<"<","/","h">> \o IntStr(level) \o <<">">>)

HeadingElementStarts(content) ==
    HeadingStartsOfLevel(content, 1) \o HeadingStartsOfLevel(content, 2)
    \o HeadingStartsOfLevel(content, 3) \o HeadingStartsOfLevel(content, 4)
    \o HeadingStartsOfLevel(content, 5) \o HeadingStartsOfLevel(content, 6)

Increasing(ps) == \A i, j \in 1..Len(ps) : i < j => ps[i] < ps[j]

\* C24: the list kinds of a catalog are in document order: the records of
\* the buttons list, <button> elements and button-typed inputs alike, and
\* the records of the headings list, whatever their levels, follow the
\* order in which their elements begin in the document.
C24_DocumentOrder ==
    (Analyzed /\ html_file.readable) =>
        /\ Len(catalog[1].elements.buttons) = Len(ButtonElementStarts(html_file.content))
        /\ Increasing(ButtonElementStarts(html_file.content))
        /\ Len(catalog[1].elements.headings) = Len(HeadingElementStarts(html_file.content))
        /\ Increasing(HeadingElementStarts(html_file.content))

\* what does hold: document order within each of the two sources of the
\* buttons list
C24_OrderWithinSource ==
    (Analyzed /\ html_file.readable) =>
        LET content == html_file.content
            fromButtons == PairedStarts(content, <<"<","b","u","t","t","o","n">>, <<"<","/","b","u","t","t","o","n",">">>)
            starts == ButtonElementStarts(content)
        IN /\ Len(catalog[1].elements.buttons) = Len(starts)
           /\ Increasing(fromButtons)
           /\ Increasing(SubSeq(starts, Len(fromButtons) + 1, Len(starts)))

----
(* Duplicates in the kinds of a catalog, checked under SpecHtml *)

\* how many times the document holds an element of a list kind: the matches
\* of the kind's pattern, each occurrence counted
Occurrences(content, kind) ==
    CASE kind = "names" -> Len(FindAllAttr(content, <<"n","a","m","e">>))
      [] kind = "data_attributes" -> Len(FindAllDataFrom(content, Lower(content), 1))
      [] kind = "inputs" -> Len(OpenTags(content, <<"<","i","n","p","u","t">>))
      [] kind = "buttons" -> Len(ButtonElementStarts(content))
      [] kind = "links" -> Len(PairedTags(content, <<"<","a">>, <<"<","/","a",">">>))
      [] kind = "headings" -> Len(HeadingElementStarts(content))
      [] kind = "images" -> Len(OpenTags(content, <<"<","i","m","g">>))

OccurrenceKinds ==
    {"names", "data_attributes", "inputs", "buttons", "links", "headings", "images"}

\* C25: only ids and class tokens are deduplicated: names, data-* pairs,
\* inputs, buttons, links, headings and images keep one record per
\* occurrence, so a value that occurs n times gives n records and n in the
\* summary count.
C25_OneRecordPerOccurrence ==
    (Analyzed /\ html_file.readable) =>
        \A kind \in OccurrenceKinds :
            /\ Len(catalog[1].elements[kind]) = Occurrences(html_file.content, kind)
            /\ catalog[1].summary[SummaryKeyOf[kind]] = Occurrences(html_file.content, kind)

\* what does hold: one record per occurrence for every such kind but names,
\* and one name per distinct value
C25_NamesDeduplicated ==
    (Analyzed /\ html_file.readable) =>
        /\ \A kind \in OccurrenceKinds \ {"names"} :
              /\ Len(catalog[1].elements[kind]) = Occurrences(html_file.content, kind)
              /\ catalog[1].summary[SummaryKeyOf[kind]] = Occurrences(html_file.content, kind)
        /\ Len(catalog[1].elements.names)
               = Cardinality(ToSet(FindAllAttr(html_file.content, <<"n","a","m","e">>)))
        /\ catalog[1].summary.total_names = Len(catalog[1].elements.names)

----
(* The synthetic ids of forms and tables, checked under SpecBlocks *)

\* what each block of a document declares: its forms (action, method) and
\* its tables (id, rows, header cells), read off the markup
FormsDeclaredIn(block) ==
    IF block = LoginDocument THEN << [action |-> Some(<<"/","l","o","g","i","n">>), method |-> Some(<<"P","O","S","T">>)] >>
    ELSE IF block = SearchForm THEN << [action |-> None, method |-> None] >>
    ELSE <<>>

TablesDeclaredIn(block) ==
    IF block = UsersTable THEN << [id |-> Some(<<"u","s","e","r","s">>), rows |-> 2, headers |-> 1] >>
    ELSE IF block = BareTable THEN << [id |-> None, rows |-> 1, headers |-> 0] >>
    ELSE <<>>

RECURSIVE FormsDeclared(_)
FormsDeclared(bs) ==
    IF bs = <<>> THEN <<>> ELSE FormsDeclaredIn(Head(bs)) \o FormsDeclared(Tail(bs))

RECURSIVE TablesDeclared(_)
TablesDeclared(bs) ==
    IF bs = <<>> THEN <<>> ELSE TablesDeclaredIn(Head(bs)) \o TablesDeclared(Tail(bs))

\* C26: a document with n forms gives a forms list with the ids form_0 ..
\* form_{n-1} in document order, each form with its declared method, or GET
\* when it declares none; its m tables get table_0 .. table_{m-1} in
\* document order.
C26_SyntheticIds ==
    Analyzed =>
        LET forms == catalog[1].elements.forms
            tables == catalog[1].elements.tables
            declaredForms == FormsDeclared(html_file.blocks)
            declaredTables == TablesDeclared(html_file.blocks)
        IN /\ Len(forms) = Len(declaredForms)
           /\ \A i \in 1..Len(forms) :
                 /\ forms[i].form_id = <<"f","o","r","m","_">> \o IntStr(i - 1)
                 /\ forms[i].action = declaredForms[i].action
                 /\ forms[i].method = IF declaredForms[i].method = None THEN <<"G","E","T">>
                                      ELSE declaredForms[i].method[1]
           /\ Len(tables) = Len(declaredTables)
           /\ \A i \in 1..Len(tables) :
                 /\ tables[i].table_id = <<"t","a","b","l","e","_">> \o IntStr(i - 1)
                 /\ tables[i].id = declaredTables[i].id
                 /\ tables[i].rows = declaredTables[i].rows
                 /\ tables[i].headers = declaredTables[i].headers

\* a form without method, a table, then a form with method POST
C26_Witness ==
    /\ Analyzed
    /\ html_file.blocks = <<SearchForm, UsersTable, LoginDocument>>
    /\ Len(catalog[1].elements.forms) = 2
    /\ catalog[1].elements.forms[1].form_id = <<"f","o","r","m","_","0">>
    /\ catalog[1].elements.forms[1].method = <<"G","E","T">>
    /\ catalog[1].elements.forms[2].form_id = <<"f","o","r","m","_","1">>
    /\ catalog[1].elements.forms[2].method = <<"P","O","S","T">>
    /\ Len(catalog[1].elements.tables) = 1
    /\ catalog[1].elements.tables[1].table_id = <<"t","a","b","l","e","_","0">>

----
(* The two sources of the buttons list, checked under SpecBlocks *)

\* what each block declares: a button (type and text), an input (type)
ButtonsDeclaredIn(block) ==
    IF block = ButtonOk THEN << [type |-> Some(<<"b","u","t","t","o","n">>), text |-> Some(<<"O","K">>)] >>
    ELSE IF block = InputSubmit THEN << [type |-> Some(<<"s","u","b","m","i","t">>), text |-> Some(<<"G","o">>)] >>
    ELSE IF block = InputReset THEN << [type |-> Some(<<"r","e","s","e","t">>), text |-> None] >>
    ELSE IF block = InputButton THEN << [type |-> Some(<<"b","u","t","t","o","n">>), text |-> Some(<<"B">>)] >>
    ELSE <<>>

InputsDeclaredIn(block) ==
    IF block = InputSubmit THEN << <<"s","u","b","m","i","t">> >>
    ELSE IF block = InputReset THEN << <<"r","e","s","e","t">> >>
    ELSE IF block = InputButton THEN << <<"b","u","t","t","o","n">> >>
    ELSE IF block = InputCheckbox THEN << <<"c","h","e","c","k","b","o","x">> >>
    ELSE <<>>

RECURSIVE ButtonsDeclared(_)
ButtonsDeclared(bs) ==
    IF bs = <<>> THEN <<>> ELSE ButtonsDeclaredIn(Head(bs)) \o ButtonsDeclared(Tail(bs))

RECURSIVE InputsDeclared(_)
InputsDeclared(bs) ==
    IF bs = <<>> THEN <<>> ELSE InputsDeclaredIn(Head(bs)) \o InputsDeclared(Tail(bs))

\* how many times x is in the sequence xs
TimesIn(xs, x) == Cardinality({i \in 1..Len(xs) : xs[i] = x})

TypeAndText(button) == [type |-> button.type, text |-> button.text]

\* C27: the buttons of a catalog are one record per <button> element and
\* one record per <input> whose type is button, submit or reset, and nothing
\* else; inputs of other types give no button; an input of one of the three
\* types is in the inputs list as well as in the buttons list.
C27_ButtonSources ==
    (Analyzed /\ html_file.blocks \in SeqsUpTo(Controls, MaxControls)) =>
        LET buttons == [i \in 1..Len(catalog[1].elements.buttons) |->
                            TypeAndText(catalog[1].elements.buttons[i])]
            inputs == [i \in 1..Len(catalog[1].elements.inputs) |->
                            catalog[1].elements.inputs[i].type]
            declaredButtons == ButtonsDeclared(html_file.blocks)
            declaredInputs == InputsDeclared(html_file.blocks)
        IN /\ Len(buttons) = Len(declaredButtons)
           /\ \A i \in 1..Len(declaredButtons) :
                 TimesIn(buttons, declaredButtons[i])
                     = TimesIn(declaredButtons, declaredButtons[i])
           /\ inputs = declaredInputs
           /\ catalog[1].summary.total_buttons = Len(declaredButtons)
           /\ catalog[1].summary.total_inputs = Len(declaredInputs)

\* a reset input, a checkbox and a <button>: two buttons, two inputs
C27_Witness ==
    /\ Analyzed
    /\ html_file.blocks = <<InputReset, InputCheckbox, ButtonOk>>
    /\ Len(catalog[1].elements.buttons) = 2
    /\ Len(catalog[1].elements.inputs) = 2
    /\ catalog[1].elements.inputs[1].type = <<"r","e","s","e","t">>
    /\ \E i \in 1..2 : catalog[1].elements.buttons[i].type = Some(<<"r","e","s","e","t">>)
    /\ \E i \in 1..2 : catalog[1].elements.buttons[i].text = Some(<<"O","K">>)

----
(* The frame of generate(), checked under SpecGen *)

\* what a rule-based call returns for a batch, computed from the batch alone
RuleBasedResult(batch) ==
    LET analysis == CombineAnalysisResults(batch)
        scs == GenerateRuleBasedScenarios(analysis)
    IN ResultDict(BuildFeatureFile(scs, analysis), "rule_based", scs, analysis)

InCall == gpc \notin {"off", "idle", "done", "raised"}

\* C28: generate() leaves its input unchanged and keeps nothing from one
\* call to the next: through every step of every call the batch is what the
\* caller passed (catalogs of the analyzer, element lists, nested form
\* inputs and summary included), and the result of a rule-based call is a
\* function of its batch alone, whatever calls were made on the generator
\* before.
C28_InputsUnchanged ==
    /\ [](gpc \notin {"off", "idle"} => analysis_results \in Batches)
    /\ [][InCall => analysis_results' = analysis_results]_vars
    /\ []((gpc = "done" /\ result[1].generation_method = "rule_based") =>
             result[1] = RuleBasedResult(analysis_results))

\* the rule-based result of a call that first asked the collaborator, on a
\* two-catalog batch with a form and its nested input
C28_Witness ==
    /\ gpc = "done"
    /\ posts = 1
    /\ result[1].generation_method = "rule_based"
    /\ Len(analysis_results) = 2
    /\ IsValidCatalog(analysis_results[1])
    /\ IsValidCatalog(analysis_results[2])
    /\ analysis_results[1] # analysis_results[2]
    /\ Len(analysis_results[2].elements.forms) = 1
    /\ Len(analysis_results[2].elements.forms[1].inputs) = 1
    /\ Len(combined_analysis[1].all_elements.forms) >= 1

----
(* Rendering and parsing again, checked under SpecGen *)

\* _parse_ai_response on a text given by its lines
ParseLines(ls) == ParseFinish(ParseFold(ParseStart, ls))

\* the records the response parser reads back from a rendered document
ReadBack(content) == ParseLines(FieldsOf(content, "\n"))

NoTitleHoldsPrefix(scs) == \A j \in 1..Len(scs) : ~Contains(scs[j].title, ScenarioKw)

\* C29: the records the response parser returned, rendered by either
\* renderer and parsed again, come back the same, titles, tags and steps in
\* order; the header, the Background lines and the trailing # lines give no
\* record and no step.
C29_RoundTrip ==
    (gpc = "done" /\ result[1].generation_method = "ai_powered") =>
        /\ ReadBack(result[1].content) = ai_scenarios
        /\ ReadBack(BuildFeatureFile(ai_scenarios, combined_analysis[1])) = ai_scenarios
        /\ ReadBack(BuildFeatureFileFromAi(<<>>, combined_analysis[1])) = <<>>
        /\ ReadBack(BuildFeatureFile(<<>>, combined_analysis[1])) = <<>>

\* what does hold: the round trip of records whose titles do not contain
\* 'Scenario:', and of the records of the rule templates
C29_RoundTripOfPlainTitles ==
    /\ (gpc = "done" /\ result[1].generation_method = "ai_powered") =>
          /\ NoTitleHoldsPrefix(ai_scenarios) =>
                /\ ReadBack(result[1].content) = ai_scenarios
                /\ ReadBack(BuildFeatureFile(ai_scenarios, combined_analysis[1])) = ai_scenarios
          /\ ReadBack(BuildFeatureFileFromAi(<<>>, combined_analysis[1])) = <<>>
          /\ ReadBack(BuildFeatureFile(<<>>, combined_analysis[1])) = <<>>
    /\ (gpc = "done" /\ result[1].generation_method = "rule_based") =>
          ReadBack(result[1].content) = rb_scenarios

----
(* The latch of the collaborator's availability, checked under SpecGen *)

RuleBasedReturned == gpc = "done" /\ result[1].generation_method = "rule_based"

\* ai_enabled never changes after __init__, and a generator whose probe
\* failed at construction makes no request and returns rule-based results
LatchedOff ==
    /\ [][ai_enabled' = ai_enabled]_vars
    /\ [](~ai_enabled =>
             /\ probes = 0
             /\ posts = 0
             /\ gpc # "raised"
             /\ (gpc = "done" => RuleBasedReturned))

\* a probe that finds the collaborator down is counted, sends no completion
\* request and leads to the rule-based path
ProbeDown ==
    [][(gpc = "probe" /\ ~ollama_up /\ gpc' # gpc) =>
          (probes' = probes + 1 /\ posts' = posts /\ gpc' = "rule")]_vars

\* C30: availability is latched at construction: after a failed probe no
\* later call contacts the collaborator or reports the generative method,
\* whatever the collaborator does in between; after a successful probe, a
\* call that asks for augmentation while the collaborator is down probes
\* again, sends no completion request and returns the rule-based result.
C30_LatchedAvailability ==
    /\ LatchedOff
    /\ ProbeDown
    /\ []((CallEnded /\ ai_enabled /\ UseGenerative /\ posts = 0) =>
             (RuleBasedReturned /\ probes = 1))

\* what does hold: the same, except that the call raises before it probes
\* when the prompt cannot be built
C30_LatchedUnlessPromptRaises ==
    /\ LatchedOff
    /\ ProbeDown
    /\ []((CallEnded /\ ai_enabled /\ UseGenerative /\ posts = 0) =>
             \/ RuleBasedReturned /\ probes = 1
             \/ /\ gpc = "raised"
                /\ probes = 0
                /\ CreateAiPrompt(combined_analysis[1]).raises)

====
